---- MODULE Spec2Model ----
(***************************************************************************)
(* AlgoChat web client: the cryptographic message layer.                   *)
(*                                                                         *)
(*   - PSK counter state: send counter, sliding receive window, replay     *)
(*     protection, and the two-level ratchet that derives message keys.    *)
(*   - Envelope codecs of the base protocol and of the PSK protocol.       *)
(*   - Hybrid encryption over a symbolic model of X25519, HKDF-SHA256 and  *)
(*     ChaCha20-Poly1305.                                                  *)
(*   - PSK sessions and their stored copies.                               *)
(*   - The PSK storage service and the message dispatcher of ChatService.  *)
(*   - The PSK exchange URI.                                               *)
(*   - WalletService: its async calls, split at their awaits, and          *)
(*     disconnect.                                                         *)
(*                                                                         *)
(* A Uint8Array is a sequence of chunks.  A chunk is either                *)
(*   [lit |-> <<b1, ..., bn>>]          n literal bytes (0..255), or       *)
(*   [sym |-> t, lo |-> a, hi |-> b]    bytes a..b of the output of the    *)
(*                                      primitive application t.           *)
(* Arrays are kept normalised (no empty chunk, adjacent chunks merged), so *)
(* two arrays are equal exactly when they hold the same bytes.             *)
(***************************************************************************)
EXTENDS Integers, Sequences, FiniteSets, TLC

VARIABLES
    state,        \* the PSKState of one peer (psk-types.ts PSKState)
    recorded,     \* history: every counter recorded since createPSKState
    lastRecv,     \* history: the last validate / record-on-ok step
    sendLog,      \* history: each advanceSendCounter call, in order: the
                  \* counter returned and whether the encryption after it succeeded
    cIn,          \* encryption run: the inputs
    cEnv,         \* encryption run: the envelope (or the error) of encrypt
    cTamper,      \* encryption run: what was changed in the envelope
    cOut,         \* encryption run: who decrypted, and the result
    cPc,          \* encryption run: position
    wEnv,         \* codec run: the envelope to encode
    wBytes,       \* codec run: the encoded bytes
    wOut,         \* codec run: the decoded envelope (or the error)
    wPc,          \* codec run: position
    sessions,     \* PSKService.sessions: address -> PSKState (None: no entry)
    storage,      \* localStorage under PSK_STORAGE_PREFIX: address -> text
    svcOut,       \* PSKService: the last call and what it returned or threw
    entries,      \* PSK storage service: address -> entry (None: no entry)
    savePending,  \* PSK storage service: doSave calls of the savePromise chain
                  \* that have not ended
    saving,       \* PSK storage service: what the running doSave is about to
                  \* write (None: no doSave is running)
    pskStore,     \* localStorage item algochat_psk (None: no item)
    pskMessageIds,\* ChatService.pskMessageIds
    chatOut,      \* ChatService / PSK storage service: the last call
    initialized,  \* PSK storage service: initialized
    loads,        \* PSK storage service: the initialize() calls that have not
                  \* returned
    account,      \* WalletService._account (None: null)
    sessionItem,  \* sessionStorage item algochat_session (None: no item)
    persistItem,  \* localStorage item algochat_persist (None: no item)
    cachedPassword, \* storage-crypto.ts cachedPassword (None: null)
    flights,      \* WalletService: the async calls that have not returned
    walletOut,    \* WalletService: the last step
    walletCalls,  \* WalletService: the async calls made so far
    disconnected, \* WalletService: disconnect() was called, and neither
                  \* connect nor unlockWithPassword since
    uIn,          \* exchange URI run: address, PSK and label
    uUri,         \* exchange URI run: the URI (or the error) of create
    uOut,         \* exchange URI run: the result of parse
    uPc,          \* exchange URI run: position
    rIn,          \* ratchet run: the initial PSK and two counters
    rOut,         \* ratchet run: the PSK derived at each counter
    rPc,          \* ratchet run: position
    persists,     \* PSKService with encrypted storage: the persistState
                  \* calls waiting at encryptForStorage
    sessionLoads, \* PSKService with encrypted storage: the
                  \* loadPersistedSessions calls that have not returned
    kIn,          \* key material run: the inputs
    kBuf,         \* key material run: the buffers of the call at its return
    kPc,          \* key material run: position
    sends,        \* ChatService: the sendPSKMessage calls that have not returned
    ledger,       \* the notes submitted to the network, in order
    sendCalls,    \* ChatService: the sendPSKMessage calls made so far
    sessionKey,   \* storage-crypto.ts sessionKey (0: null; else the number of
                  \* the key, in the order the keys were asked for)
    generating,   \* the keys whose crypto.subtle.generateKey has not resolved
    keysMade      \* the session keys asked for so far

counterVars == <<state, recorded, lastRecv, sendLog>>
cryptoVars == <<cIn, cEnv, cTamper, cOut, cPc>>
codecVars == <<wEnv, wBytes, wOut, wPc>>
serviceVars == <<sessions, storage, svcOut>>
chatVars == <<entries, savePending, saving, pskStore, pskMessageIds, chatOut>>
walletVars ==
    <<account, sessionItem, persistItem, cachedPassword, flights, walletOut,
      walletCalls, disconnected>>
uriVars == <<uIn, uUri, uOut, uPc>>
ratchetVars == <<rIn, rOut, rPc>>
persistVars == <<persists, sessionLoads>>
keyVars == <<kIn, kBuf, kPc>>
sendVars == <<sends, ledger, sendCalls>>
sessionKeyVars == <<sessionKey, generating, keysMade>>
loadVars == <<initialized, loads>>
vars == <<counterVars, cryptoVars, codecVars, serviceVars, chatVars, walletVars, uriVars,
          ratchetVars, persistVars, keyVars, sendVars, sessionKeyVars, loadVars>>

\* What the steps of one part leave alone of the other parts.
exceptCounter ==
    <<cryptoVars, codecVars, serviceVars, chatVars, walletVars, uriVars, ratchetVars,
      persistVars, keyVars, sendVars,
      sessionKeyVars, loadVars>>
exceptCrypto ==
    <<counterVars, codecVars, serviceVars, chatVars, walletVars, uriVars, ratchetVars,
      persistVars, keyVars, sendVars,
      sessionKeyVars, loadVars>>
exceptCodec ==
    <<counterVars, cryptoVars, serviceVars, chatVars, walletVars, uriVars, ratchetVars,
      persistVars, keyVars, sendVars,
      sessionKeyVars, loadVars>>
exceptService ==
    <<counterVars, cryptoVars, codecVars, chatVars, walletVars, uriVars, ratchetVars,
      persistVars, keyVars, sendVars,
      sessionKeyVars, loadVars>>
exceptChat ==
    <<counterVars, cryptoVars, codecVars, serviceVars, walletVars, uriVars, ratchetVars,
      persistVars, keyVars, sendVars,
      sessionKeyVars, loadVars>>
exceptUri ==
    <<counterVars, cryptoVars, codecVars, serviceVars, chatVars, walletVars, ratchetVars,
      persistVars, keyVars, sendVars,
      sessionKeyVars, loadVars>>
exceptRatchet ==
    <<counterVars, cryptoVars, codecVars, serviceVars, chatVars, walletVars, uriVars,
      persistVars, keyVars, sendVars,
      sessionKeyVars, loadVars>>
exceptWallet ==
    <<counterVars, cryptoVars, codecVars, serviceVars, chatVars, uriVars, ratchetVars,
      persistVars, keyVars, sendVars,
      sessionKeyVars, loadVars>>
exceptPersist ==
    <<counterVars, cryptoVars, codecVars, chatVars, walletVars, uriVars, ratchetVars,
      keyVars, sendVars,
      sessionKeyVars, loadVars>>
exceptKeys ==
    <<counterVars, cryptoVars, codecVars, serviceVars, chatVars, walletVars, uriVars,
      ratchetVars, persistVars, sendVars,
      sessionKeyVars, loadVars>>
exceptSend ==
    <<counterVars, cryptoVars, codecVars, serviceVars, walletVars, uriVars, ratchetVars,
      persistVars, keyVars,
      sessionKeyVars, loadVars>>

\* The same, for the steps that call getOrCreateSessionKey.
exceptChatSession ==
    <<counterVars, cryptoVars, codecVars, serviceVars, walletVars, uriVars, ratchetVars,
      persistVars, keyVars, sendVars, loadVars>>
exceptWalletSession ==
    <<counterVars, cryptoVars, codecVars, serviceVars, chatVars, uriVars, ratchetVars,
      persistVars, keyVars, sendVars, loadVars>>
exceptPersistSession ==
    <<counterVars, cryptoVars, codecVars, chatVars, walletVars, uriVars, ratchetVars,
      keyVars, sendVars, loadVars>>
exceptSessionKey ==
    <<counterVars, cryptoVars, codecVars, serviceVars, chatVars, walletVars, uriVars,
      ratchetVars, persistVars, keyVars, sendVars, loadVars>>

\* The same, for initialize() and clear() of the PSK storage service.
exceptChatLoad ==
    <<counterVars, cryptoVars, codecVars, serviceVars, walletVars, uriVars, ratchetVars,
      persistVars, keyVars, sendVars>>

None == [none |-> TRUE]

\* A value that may be null: Null, or Some(v) (boxed, to tell it from Null).
Some(v) == [some |-> v]

Max(a, b) == IF a >= b THEN a ELSE b
Min(a, b) == IF a <= b THEN a ELSE b

(***************************************************************************)
(* Protocol constants.                                                     *)
(***************************************************************************)
PROTOCOL ==
    [VERSION |-> 1, PROTOCOL_ID |-> 1, HEADER_SIZE |-> 126, TAG_SIZE |-> 16,
     ENCRYPTED_SENDER_KEY_SIZE |-> 48, MAX_PAYLOAD_SIZE |-> 882]

PSK_PROTOCOL ==
    [VERSION |-> 1, PROTOCOL_ID |-> 2, HEADER_SIZE |-> 130, TAG_SIZE |-> 16,
     ENCRYPTED_SENDER_KEY_SIZE |-> 48, MAX_PAYLOAD_SIZE |-> 878,
     SESSION_SIZE |-> 100, COUNTER_WINDOW |-> 200]

(***************************************************************************)
(* Numbers.  A JavaScript number holding an integer n is the pair of limbs *)
(* [hi |-> n \div 65536, lo |-> n % 65536] (0 <= lo < 65536; hi is        *)
(* negative for a negative n): the counters run up to 2^32, which is more  *)
(* than a single integer of the model can hold.                            *)
(***************************************************************************)
Limb == 256 * 256

Norm(h, l) == [hi |-> h + (l \div Limb), lo |-> l % Limb]

Num(n) == Norm(0, n)

NumAdd(a, b) == Norm(a.hi + b.hi, a.lo + b.lo)
NumSub(a, b) == Norm(a.hi - b.hi, a.lo - b.lo)
NumLess(a, b) == a.hi < b.hi \/ (a.hi = b.hi /\ a.lo < b.lo)
NumLeq(a, b) == a = b \/ NumLess(a, b)
NumMax(a, b) == IF NumLess(a, b) THEN b ELSE a

\* Math.floor(a / d) and a % d for a >= 0 and a small divisor d.
NumDiv(a, d) == [hi |-> a.hi \div d, lo |-> ((a.hi % d) * Limb + a.lo) \div d]
NumMod(a, d) == Num(((a.hi % d) * Limb + a.lo) % d)

\* 0xFFFFFFFF
MAX_UINT32 == [hi |-> 65535, lo |-> 65535]

(***************************************************************************)
(* Uint8Array.                                                             *)
(***************************************************************************)
IsLit(ch) == "lit" \in DOMAIN ch

ChunkLen(ch) == IF IsLit(ch) THEN Len(ch.lit) ELSE ch.hi - ch.lo + 1

Lit(bytes) == IF bytes = <<>> THEN <<>> ELSE <<[lit |-> bytes]>>

Sym(t, n) == IF n <= 0 THEN <<>> ELSE <<[sym |-> t, lo |-> 1, hi |-> n]>>

RECURSIVE length(_)
length(a) == IF a = <<>> THEN 0 ELSE ChunkLen(Head(a)) + length(Tail(a))

Mergeable(x, y) ==
    IF IsLit(x) /\ IsLit(y) THEN TRUE
    ELSE IF IsLit(x) \/ IsLit(y) THEN FALSE
    ELSE x.sym = y.sym /\ x.hi + 1 = y.lo

Merge(x, y) ==
    IF IsLit(x) THEN [lit |-> x.lit \o y.lit]
    ELSE [sym |-> x.sym, lo |-> x.lo, hi |-> y.hi]

Join(a, b) ==
    IF a = <<>> THEN b
    ELSE IF b = <<>> THEN a
    ELSE IF Mergeable(a[Len(a)], Head(b))
         THEN SubSeq(a, 1, Len(a) - 1) \o <<Merge(a[Len(a)], Head(b))>> \o Tail(b)
         ELSE a \o b

\* concatBytes(...arrays): the arrays one after the other.
RECURSIVE concatBytes(_)
concatBytes(arrays) ==
    IF arrays = <<>> THEN <<>>
    ELSE Join(Head(arrays), concatBytes(Tail(arrays)))

ChunkSub(ch, from, to) ==
    IF IsLit(ch) THEN [lit |-> SubSeq(ch.lit, from + 1, to)]
    ELSE [sym |-> ch.sym, lo |-> ch.lo + from, hi |-> ch.lo + to - 1]

\* Uint8Array.prototype.slice(start, end): bytes start .. end-1 (0-based).
RECURSIVE slice(_, _, _)
slice(a, start, end) ==
    IF a = <<>> \/ end <= 0 \/ end <= start THEN <<>>
    ELSE LET n == ChunkLen(Head(a)) IN
         IF start >= n THEN slice(Tail(a), start - n, end - n)
         ELSE <<ChunkSub(Head(a), Max(start, 0), Min(end, n))>>
                  \o slice(Tail(a), Max(start - n, 0), end - n)

\* data[i] (0-based).  Only literal bytes have a numeric value that the code
\* compares with a constant; a byte of a primitive's output reads as -1,
\* which equals no constant.  An index past the end reads as undefined (-2).
RECURSIVE at(_, _)
at(a, i) ==
    IF a = <<>> THEN -2
    ELSE LET n == ChunkLen(Head(a)) IN
         IF i >= n THEN at(Tail(a), i - n)
         ELSE IF IsLit(Head(a)) THEN Head(a).lit[i + 1] ELSE -1

\* uint8ArrayEquals(a, b): same length and same bytes.
uint8ArrayEquals(a, b) == length(a) = length(b) /\ a = b

(***************************************************************************)
(* Counter state (psk-state.ts).                                           *)
(***************************************************************************)
Ok(v) == [ok |-> TRUE, value |-> v]
Err(e) == [ok |-> FALSE, error |-> e]

\* (variant: the send counter starts at 1)
createPSKState_startsAtOne(initialPSK) ==
    IF length(initialPSK) # 32 THEN Err("PSKCounterError")
    ELSE Ok([initialPSK |-> initialPSK,
             sendCounter |-> Num(1),
             receiveCounter |-> Num(0),
             receivedCounters |-> {}])

createPSKState(initialPSK) ==
    IF length(initialPSK) # 32 THEN Err("PSKCounterError")
    ELSE Ok([initialPSK |-> initialPSK,
             sendCounter |-> Num(0),
             receiveCounter |-> Num(0),
             receivedCounters |-> {}])

\* (variant: returns the counter after the increment)
advanceSendCounter_returnsIncremented(st) ==
    LET counter == NumAdd(st.sendCounter, Num(1)) IN
    IF NumLess(MAX_UINT32, counter) THEN Err("PSKCounterError")
    ELSE Ok([counter |-> counter,
             state |-> [st EXCEPT !.sendCounter = counter]])

\* (variant: advancing also empties the receive window)
advanceSendCounter_resetsWindow(st) ==
    LET counter == st.sendCounter IN
    IF NumLess(MAX_UINT32, counter) THEN Err("PSKCounterError")
    ELSE Ok([counter |-> counter,
             state |-> [st EXCEPT !.sendCounter = NumAdd(counter, Num(1)),
                                  !.receiveCounter = Num(0),
                                  !.receivedCounters = {}]])

\* Returns the counter and the advanced state, or the overflow error.
advanceSendCounter(st) ==
    LET counter == st.sendCounter IN
    IF NumLess(MAX_UINT32, counter) THEN Err("PSKCounterError")
    ELSE Ok([counter |-> counter,
             state |-> [st EXCEPT !.sendCounter = NumAdd(counter, Num(1))]])

\* (variant: no lower window bound)
validateReceiveCounter_noLowerBound(st, counter) ==
    IF counter \in st.receivedCounters THEN FALSE
    ELSE IF Cardinality(st.receivedCounters) = 0 THEN TRUE
    ELSE NumLeq(counter, NumAdd(st.receiveCounter, Num(PSK_PROTOCOL.COUNTER_WINDOW)))

\* (variant: upper window bound exclusive)
validateReceiveCounter_exclusiveUpper(st, counter) ==
    IF counter \in st.receivedCounters THEN FALSE
    ELSE IF Cardinality(st.receivedCounters) = 0 THEN TRUE
    ELSE LET lowerBound == NumMax(Num(0), NumSub(st.receiveCounter,
                                                 Num(PSK_PROTOCOL.COUNTER_WINDOW)))
             upperBound == NumAdd(st.receiveCounter, Num(PSK_PROTOCOL.COUNTER_WINDOW))
         IN NumLeq(lowerBound, counter) /\ NumLess(counter, upperBound)

validateReceiveCounter(st, counter) ==
    IF counter \in st.receivedCounters THEN FALSE
    ELSE IF Cardinality(st.receivedCounters) = 0 THEN TRUE
    ELSE LET lowerBound == NumMax(Num(0), NumSub(st.receiveCounter,
                                                 Num(PSK_PROTOCOL.COUNTER_WINDOW)))
             upperBound == NumAdd(st.receiveCounter, Num(PSK_PROTOCOL.COUNTER_WINDOW))
         IN NumLeq(lowerBound, counter) /\ NumLeq(counter, upperBound)

\* (variant: nothing is pruned)
pruneCounters_keepsAll(st) == st

pruneCounters(st) ==
    LET lowerBound == NumMax(Num(0), NumSub(st.receiveCounter,
                                            Num(PSK_PROTOCOL.COUNTER_WINDOW))) IN
    [st EXCEPT !.receivedCounters =
                   {c \in st.receivedCounters : ~NumLess(c, lowerBound)}]

\* (variant: the high-water mark follows the last counter recorded)
recordReceivedCounter_marksLast(st, counter) ==
    LET added == [st EXCEPT !.receivedCounters = st.receivedCounters \cup {counter}]
        marked == [added EXCEPT !.receiveCounter = counter]
    IN pruneCounters(marked)

recordReceivedCounter(st, counter) ==
    LET added == [st EXCEPT !.receivedCounters = st.receivedCounters \cup {counter}]
        marked == IF NumLess(added.receiveCounter, counter)
                  THEN [added EXCEPT !.receiveCounter = counter]
                  ELSE added
    IN pruneCounters(marked)

(***************************************************************************)
(* Strings.  A JavaScript string is the sequence of its code points; a     *)
(* value in 55296..57343 stands for an unpaired surrogate code unit.       *)
(* TextEncoder / TextDecoder are UTF-8 (WHATWG Encoding).                  *)
(***************************************************************************)
IsSurrogate(c) == c >= 55296 /\ c <= 57343

EncodeChar(c) ==
    IF c < 128 THEN <<c>>
    ELSE IF c < 2048 THEN <<192 + (c \div 64), 128 + (c % 64)>>
    ELSE IF IsSurrogate(c) THEN <<239, 191, 189>>
    ELSE IF c < 65536
         THEN <<224 + (c \div 4096), 128 + ((c \div 64) % 64), 128 + (c % 64)>>
    ELSE <<240 + (c \div 262144), 128 + ((c \div 4096) % 64),
           128 + ((c \div 64) % 64), 128 + (c % 64)>>

RECURSIVE Utf8Bytes(_)
Utf8Bytes(text) ==
    IF Len(text) = 0 THEN <<>>
    ELSE IF Len(text) = 1 THEN EncodeChar(text[1])
    ELSE LET h == Len(text) \div 2 IN
         Utf8Bytes(SubSeq(text, 1, h)) \o Utf8Bytes(SubSeq(text, h + 1, Len(text)))

\* new TextEncoder().encode(text)
TextEncoderEncode(text) == Lit(Utf8Bytes(text))

IsCont(b) == b >= 128 /\ b <= 191

Replacement(n) == [i \in 1..n |-> 65533]

\* The UTF-8 decoder on one byte that is not a continuation byte (or the
\* first byte of the input) and the run of continuation bytes after it: the
\* code points it emits.  The second byte of a sequence has its own range
\* after E0, ED, F0 and F4 (no overlong form, no surrogate, nothing above
\* U+10FFFF); a byte outside the range ends the sequence with one U+FFFD and
\* is read again, a sequence cut short is one U+FFFD, and a continuation byte
\* with no sequence open is one U+FFFD.
DecodeChar(b) ==
    LET n == Len(b)
        lead == b[1]
        lower == IF lead = 224 THEN 160 ELSE IF lead = 240 THEN 144 ELSE 128
        upper == IF lead = 237 THEN 159 ELSE IF lead = 244 THEN 143 ELSE 191
        needed == IF lead >= 194 /\ lead <= 223 THEN 1
                  ELSE IF lead >= 224 /\ lead <= 239 THEN 2
                  ELSE IF lead >= 240 /\ lead <= 244 THEN 3
                  ELSE 0
        codePoint ==
            IF needed = 1 THEN (lead - 192) * 64 + (b[2] - 128)
            ELSE IF needed = 2
                 THEN (lead - 224) * 4096 + (b[2] - 128) * 64 + (b[3] - 128)
            ELSE (lead - 240) * 262144 + (b[2] - 128) * 4096
                 + (b[3] - 128) * 64 + (b[4] - 128)
    IN IF lead < 128 THEN <<lead>> \o Replacement(n - 1)
       ELSE IF needed = 0 THEN Replacement(n)
       ELSE IF n = 1 THEN <<65533>>
       ELSE IF b[2] < lower \/ b[2] > upper THEN Replacement(n)
       ELSE IF n <= needed THEN <<65533>>
       ELSE <<codePoint>> \o Replacement(n - needed - 1)

\* Splits before a byte that is not a continuation byte (the decoder always
\* starts anew there) near the middle and decodes both halves.
RECURSIVE Utf8Chars(_)
Utf8Chars(b) ==
    LET n == Len(b)
        after == {j \in (n \div 2 + 1)..n : j >= 2 /\ ~IsCont(b[j])}
        before == {j \in 2..(n \div 2) : ~IsCont(b[j])}
    IN IF n = 0 THEN <<>>
       ELSE IF after # {}
            THEN LET p == CHOOSE j \in after : \A k \in after : j <= k IN
                 Utf8Chars(SubSeq(b, 1, p - 1)) \o Utf8Chars(SubSeq(b, p, n))
       ELSE IF before # {}
            THEN LET p == CHOOSE j \in before : \A k \in before : j >= k IN
                 Utf8Chars(SubSeq(b, 1, p - 1)) \o Utf8Chars(SubSeq(b, p, n))
       ELSE DecodeChar(b)

\* new TextDecoder().decode(data): UTF-8, a leading byte order mark is dropped.
\* Bytes that are a primitive's output (never decoded by the code paths
\* modelled here) read as U+FFFD.
TextDecoderDecode(data) ==
    LET chars == IF data = <<>> THEN <<>>
                 ELSE IF Len(data) = 1 /\ IsLit(data[1]) THEN Utf8Chars(data[1].lit)
                 ELSE <<65533>>
    IN IF Len(chars) > 0 /\ chars[1] = 65279 THEN Tail(chars) ELSE chars

Repeat(c, n) == [i \in 1..n |-> c]

\* The message texts used as inputs.
TxtHi == <<104, 105>>                                  \* hi
TxtJsonText == <<123, 34, 116, 101, 120, 116, 34, 58, 34, 104, 105, 34, 125>>
                                                       \* {"text":"hi"}
TxtKeyPublish == <<123, 34, 116, 121, 112, 101, 34, 58, 34, 107, 101, 121, 45,
                   112, 117, 98, 108, 105, 115, 104, 34, 125>>
                                                       \* {"type":"key-publish"}
TxtJsonOther == <<123, 34, 97, 34, 58, 49, 125>>       \* {"a":1}
TxtBrace == <<123, 104, 105>>                          \* {hi
TxtBom == <<65279, 104, 105>>                          \* U+FEFF hi
TxtLoneSurrogate == <<104, 55357>>                     \* h, unpaired U+D83D
TxtEmoji == <<104, 128075>>                            \* h, U+1F44B

\* JSON.parse(text), as far as the code looks at the result: whether it
\* throws, whether json.type is 'key-publish', whether json.text is a string
\* and which.  Exact on the texts above and on every text that is not JSON;
\* other JSON documents are outside the input set.
JSONParse(text) ==
    IF text = TxtJsonText
        THEN [throws |-> FALSE, isKeyPublish |-> FALSE, textIsString |-> TRUE, text |-> TxtHi]
    ELSE IF text = TxtKeyPublish
        THEN [throws |-> FALSE, isKeyPublish |-> TRUE, textIsString |-> FALSE, text |-> <<>>]
    ELSE IF text = TxtJsonOther
        THEN [throws |-> FALSE, isKeyPublish |-> FALSE, textIsString |-> FALSE, text |-> <<>>]
    ELSE [throws |-> TRUE, isKeyPublish |-> FALSE, textIsString |-> FALSE, text |-> <<>>]

startsWithBrace(text) == Len(text) > 0 /\ text[1] = 123

(***************************************************************************)
(* Primitives (noble): X25519, HKDF-SHA256, ChaCha20-Poly1305, symbolic.   *)
(* The output of a primitive is determined by its inputs and by nothing    *)
(* else, and different inputs give different outputs.                      *)
(***************************************************************************)
IsWhole(a, tag, n) ==
    /\ Len(a) = 1
    /\ ~IsLit(a[1])
    /\ a[1].sym[1] = tag
    /\ a[1].lo = 1
    /\ a[1].hi = n

\* x25519.getPublicKey(privateKey)
getPublicKey(privateKey) == Sym(<<"x25519.public", privateKey>>, 32)

\* The u-coordinates of the points of small order, little-endian, bit 255
\* cleared: 0, 1, the two of order 8, p - 1, p and p + 1.
LowOrderPoints ==
    {[i \in 1..32 |-> 0],
     [i \in 1..32 |-> IF i = 1 THEN 1 ELSE 0],
     <<224, 235, 122, 124, 59, 65, 184, 174, 22, 86, 227, 250, 241, 159, 196, 106,
       218, 9, 141, 235, 156, 50, 177, 253, 134, 98, 5, 22, 95, 73, 184, 0>>,
     <<95, 156, 149, 188, 163, 80, 140, 36, 177, 208, 177, 85, 156, 131, 239, 91,
       4, 68, 92, 196, 88, 28, 142, 134, 216, 34, 78, 221, 208, 159, 17, 87>>,
     [i \in 1..32 |-> IF i = 1 THEN 236 ELSE IF i = 32 THEN 127 ELSE 255],
     [i \in 1..32 |-> IF i = 1 THEN 237 ELSE IF i = 32 THEN 127 ELSE 255],
     [i \in 1..32 |-> IF i = 1 THEN 238 ELSE IF i = 32 THEN 127 ELSE 255]}

\* The public key is given byte by byte and is a point of small order: X25519
\* with it gives 32 zero bytes whatever the private key.
IsLowOrder(publicKey) ==
    /\ Len(publicKey) = 1
    /\ IsLit(publicKey[1])
    /\ Len(publicKey[1].lit) = 32
    /\ [publicKey[1].lit EXCEPT ![32] = @ % 128] \in LowOrderPoints

\* x25519.getSharedSecret(privateKey, publicKey): the same for (a, pub(b))
\* and (b, pub(a)).  It throws for a key that is not 32 bytes long and when
\* the result is all zero.
getSharedSecret(privateKey, publicKey) ==
    IF length(privateKey) # 32 \/ length(publicKey) # 32 \/ IsLowOrder(publicKey)
    THEN Err("Error")
    ELSE IF IsWhole(publicKey, "x25519.public", 32)
    THEN Ok(Sym(<<"x25519.shared", {privateKey, publicKey[1].sym[2]}>>, 32))
    ELSE Ok(Sym(<<"x25519.other", privateKey, publicKey>>, 32))

x25519ECDH(privateKey, publicKey) == getSharedSecret(privateKey, publicKey)

\* hkdf(sha256, ikm, salt, info, length)
hkdf(ikm, salt, info, len) == Sym(<<"hkdf", ikm, salt, info>>, len)

\* chacha20poly1305(key, nonce).encrypt(plaintext): ciphertext and 16-byte tag.
chachaEncrypt(key, nonce, plaintext) ==
    Sym(<<"chacha20poly1305", key, nonce, plaintext>>, length(plaintext) + 16)

\* chacha20poly1305(key, nonce).decrypt(data): the plaintext when data is,
\* byte for byte, what encrypt produced under this key and nonce; otherwise
\* the tag check fails and decrypt throws.
chachaDecrypt(key, nonce, data) ==
    IF /\ length(key) = 32
       /\ length(nonce) = 12
       /\ Len(data) = 1
       /\ ~IsLit(data[1])
       /\ data[1].sym[1] = "chacha20poly1305"
       /\ data[1].lo = 1
       /\ data[1].hi = length(data[1].sym[4]) + 16
       /\ data[1].sym[2] = key
       /\ data[1].sym[3] = nonce
    THEN Ok(data[1].sym[4])
    ELSE Err("DecryptFailed")

(***************************************************************************)
(* Ratchet (psk-ratchet.ts).                                               *)
(***************************************************************************)
PSK_HKDF ==
    [SESSION_SALT |-> <<65, 108, 103, 111, 67, 104, 97, 116, 45, 80, 83, 75,
                        45, 83, 101, 115, 115, 105, 111, 110>>,
     POSITION_SALT |-> <<65, 108, 103, 111, 67, 104, 97, 116, 45, 80, 83, 75,
                         45, 80, 111, 115, 105, 116, 105, 111, 110>>,
     HYBRID_INFO_PREFIX |-> <<65, 108, 103, 111, 67, 104, 97, 116, 86, 49,
                              45, 80, 83, 75>>,
     SENDER_KEY_INFO_PREFIX |-> <<65, 108, 103, 111, 67, 104, 97, 116, 86, 49,
                                  45, 80, 83, 75, 45, 83, 101, 110, 100, 101,
                                  114, 75, 101, 121>>]

SESSION_SALT == TextEncoderEncode(PSK_HKDF.SESSION_SALT)
POSITION_SALT == TextEncoderEncode(PSK_HKDF.POSITION_SALT)
HYBRID_INFO_PREFIX == TextEncoderEncode(PSK_HKDF.HYBRID_INFO_PREFIX)
PSK_SENDER_KEY_INFO_PREFIX == TextEncoderEncode(PSK_HKDF.SENDER_KEY_INFO_PREFIX)

\* DataView.setUint32(0, value, false): value modulo 2^32, big-endian.
uint32BE(value) ==
    LET h == value.hi % Limb IN
    Lit(<<h \div 256, h % 256, value.lo \div 256, value.lo % 256>>)

deriveSessionPSK(initialPSK, sessionIndex) ==
    hkdf(initialPSK, SESSION_SALT, uint32BE(sessionIndex), 32)

derivePositionPSK(sessionPSK, position) ==
    hkdf(sessionPSK, POSITION_SALT, uint32BE(position), 32)

\* Variant: the position within the session is left out of the derivation.
derivePSKAtCounter_sessionOnly(initialPSK, counter) ==
    LET sessionIndex == NumDiv(counter, PSK_PROTOCOL.SESSION_SIZE)
        sessionPSK == deriveSessionPSK(initialPSK, sessionIndex)
    IN derivePositionPSK(sessionPSK, Num(0))

\* Variant: the position is the counter itself, not its remainder.
derivePSKAtCounter_positionIsCounter(initialPSK, counter) ==
    LET sessionIndex == NumDiv(counter, PSK_PROTOCOL.SESSION_SIZE)
        sessionPSK == deriveSessionPSK(initialPSK, sessionIndex)
    IN derivePositionPSK(sessionPSK, counter)

derivePSKAtCounter(initialPSK, counter) ==
    LET sessionIndex == NumDiv(counter, PSK_PROTOCOL.SESSION_SIZE)
        position == NumMod(counter, PSK_PROTOCOL.SESSION_SIZE)
        sessionPSK == deriveSessionPSK(initialPSK, sessionIndex)
    IN derivePositionPSK(sessionPSK, position)

deriveHybridSymmetricKey(sharedSecret, currentPSK, ephPub, senderPub, recipientPub) ==
    LET ikm == concatBytes(<<sharedSecret, currentPSK>>)
        info == concatBytes(<<HYBRID_INFO_PREFIX, senderPub, recipientPub>>)
    IN hkdf(ikm, ephPub, info, 32)

deriveSenderKey(senderSharedSecret, currentPSK, ephPub, senderPub) ==
    LET ikm == concatBytes(<<senderSharedSecret, currentPSK>>)
        info == concatBytes(<<PSK_SENDER_KEY_INFO_PREFIX, senderPub>>)
    IN hkdf(ikm, ephPub, info, 32)

(***************************************************************************)
(* Envelope codecs (envelope.ts, psk-envelope.ts).                         *)
(***************************************************************************)
\* new Uint8Array(n)
Zeros(n) == Lit(Repeat(0, n))

\* result.set(source, offset): source written over result from offset on.
\* (set throws a RangeError when source does not fit; every envelope encoded
\* here has the field sizes of the wire format, so it fits.)
SetBytes(result, source, offset) ==
    concatBytes(<<slice(result, 0, offset),
                  source,
                  slice(result, offset + length(source), length(result))>>)

encodeEnvelope(envelope) ==
    LET totalSize == 2 + 32 + 32 + 12 + 48 + length(envelope.ciphertext)
        r0 == Zeros(totalSize)
        r1 == SetBytes(r0, Lit(<<envelope.version % 256>>), 0)
        r2 == SetBytes(r1, Lit(<<envelope.protocolId % 256>>), 1)
        r3 == SetBytes(r2, envelope.senderPublicKey, 2)
        r4 == SetBytes(r3, envelope.ephemeralPublicKey, 2 + 32)
        r5 == SetBytes(r4, envelope.nonce, 2 + 32 + 32)
        r6 == SetBytes(r5, envelope.encryptedSenderKey, 2 + 32 + 32 + 12)
    IN SetBytes(r6, envelope.ciphertext, 2 + 32 + 32 + 12 + 48)

\* Variant: the minimum size is checked before the header bytes.
decodeEnvelope_lengthFirst(data) ==
    LET minSize == PROTOCOL.HEADER_SIZE + PROTOCOL.TAG_SIZE IN
    IF length(data) < minSize THEN Err("TooShort")
    ELSE IF at(data, 1) # PROTOCOL.PROTOCOL_ID THEN Err("UnsupportedProtocol")
    ELSE IF at(data, 0) # PROTOCOL.VERSION THEN Err("UnsupportedVersion")
    ELSE Ok([version |-> at(data, 0),
             protocolId |-> at(data, 1),
             senderPublicKey |-> slice(data, 2, 34),
             ephemeralPublicKey |-> slice(data, 34, 66),
             nonce |-> slice(data, 66, 78),
             encryptedSenderKey |-> slice(data, 78, 126),
             ciphertext |-> slice(data, 126, length(data))])

decodeEnvelope(data) ==
    IF length(data) < 2 THEN Err("TooShort")
    ELSE LET version == at(data, 0)
             protocolId == at(data, 1)
             minSize == PROTOCOL.HEADER_SIZE + PROTOCOL.TAG_SIZE
         IN IF protocolId # PROTOCOL.PROTOCOL_ID THEN Err("UnsupportedProtocol")
            ELSE IF version # PROTOCOL.VERSION THEN Err("UnsupportedVersion")
            ELSE IF length(data) < minSize THEN Err("TooShort")
            ELSE Ok([version |-> version,
                     protocolId |-> protocolId,
                     senderPublicKey |-> slice(data, 2, 34),
                     ephemeralPublicKey |-> slice(data, 34, 66),
                     nonce |-> slice(data, 66, 78),
                     encryptedSenderKey |-> slice(data, 78, 126),
                     ciphertext |-> slice(data, 126, length(data))])

isChatMessage(data) ==
    length(data) >= 2 /\ at(data, 0) = PROTOCOL.VERSION
                      /\ at(data, 1) = PROTOCOL.PROTOCOL_ID

encodePSKEnvelope(envelope) ==
    LET totalSize == PSK_PROTOCOL.HEADER_SIZE + length(envelope.ciphertext)
        r0 == Zeros(totalSize)
        r1 == SetBytes(r0, Lit(<<envelope.version % 256>>), 0)
        r2 == SetBytes(r1, Lit(<<envelope.protocolId % 256>>), 1)
        r3 == SetBytes(r2, uint32BE(envelope.counter), 2)
        r4 == SetBytes(r3, envelope.senderPublicKey, 6)
        r5 == SetBytes(r4, envelope.ephemeralPublicKey, 6 + 32)
        r6 == SetBytes(r5, envelope.nonce, 6 + 32 + 32)
        r7 == SetBytes(r6, envelope.encryptedSenderKey, 6 + 32 + 32 + 12)
    IN SetBytes(r7, envelope.ciphertext, 6 + 32 + 32 + 12 + 48)

\* Variant: the four bytes read as little-endian.
getUint32_littleEndian(data, offset) ==
    [hi |-> at(data, offset + 3) * 256 + at(data, offset + 2),
     lo |-> at(data, offset + 1) * 256 + at(data, offset)]

\* DataView.getUint32(offset, false)
getUint32(data, offset) ==
    [hi |-> at(data, offset) * 256 + at(data, offset + 1),
     lo |-> at(data, offset + 2) * 256 + at(data, offset + 3)]

decodePSKEnvelope(data) ==
    IF length(data) < 2 THEN Err("TooShort")
    ELSE LET version == at(data, 0)
             protocolId == at(data, 1)
             minSize == PSK_PROTOCOL.HEADER_SIZE + PSK_PROTOCOL.TAG_SIZE
         IN IF version # PSK_PROTOCOL.VERSION THEN Err("UnsupportedVersion")
            ELSE IF protocolId # PSK_PROTOCOL.PROTOCOL_ID THEN Err("UnsupportedProtocol")
            ELSE IF length(data) < minSize THEN Err("TooShort")
            ELSE Ok([version |-> version,
                     protocolId |-> protocolId,
                     counter |-> getUint32(data, 2),
                     senderPublicKey |-> slice(data, 6, 38),
                     ephemeralPublicKey |-> slice(data, 38, 70),
                     nonce |-> slice(data, 70, 82),
                     encryptedSenderKey |-> slice(data, 82, 130),
                     ciphertext |-> slice(data, 130, length(data))])

isPSKMessage(data) ==
    /\ length(data) >= PSK_PROTOCOL.HEADER_SIZE + PSK_PROTOCOL.TAG_SIZE
    /\ at(data, 0) = PSK_PROTOCOL.VERSION
    /\ at(data, 1) = PSK_PROTOCOL.PROTOCOL_ID

(***************************************************************************)
(* Base protocol encryption (encryption.ts).  rnd holds the random values  *)
(* drawn during the call: the ephemeral secret and the nonce.              *)
(***************************************************************************)
Null == [null |-> TRUE]

ENCRYPTION_INFO_PREFIX ==
    TextEncoderEncode(<<65, 108, 103, 111, 67, 104, 97, 116, 86, 49>>)

SENDER_KEY_INFO_PREFIX ==
    TextEncoderEncode(<<65, 108, 103, 111, 67, 104, 97, 116, 86, 49, 45, 83,
                        101, 110, 100, 101, 114, 75, 101, 121>>)

generateEphemeralKeyPair(rnd) ==
    [privateKey |-> rnd.ephPriv, publicKey |-> getPublicKey(rnd.ephPriv)]

\* Variant: the size check is made on the string length.
encryptMessage_checksStringLength(plaintext, senderPrivateKey, senderPublicKey, recipientPublicKey, rnd) ==
    LET messageBytes == TextEncoderEncode(plaintext) IN
    IF Len(plaintext) > PROTOCOL.MAX_PAYLOAD_SIZE THEN Err("PayloadTooLarge")
    ELSE
    LET ephemeral == generateEphemeralKeyPair(rnd)
        sharedSecret == x25519ECDH(ephemeral.privateKey, recipientPublicKey)
        info == concatBytes(<<ENCRYPTION_INFO_PREFIX, senderPublicKey, recipientPublicKey>>)
        symmetricKey == hkdf(sharedSecret.value, ephemeral.publicKey, info, 32)
        nonce == rnd.nonce
        ciphertextWithTag == chachaEncrypt(symmetricKey, nonce, messageBytes)
        senderSharedSecret == x25519ECDH(ephemeral.privateKey, senderPublicKey)
        senderInfo == concatBytes(<<SENDER_KEY_INFO_PREFIX, senderPublicKey>>)
        senderEncryptionKey == hkdf(senderSharedSecret.value, ephemeral.publicKey, senderInfo, 32)
        encryptedSenderKey == chachaEncrypt(senderEncryptionKey, nonce, symmetricKey)
    IN IF ~sharedSecret.ok THEN sharedSecret
       ELSE IF ~senderSharedSecret.ok THEN senderSharedSecret
       ELSE Ok([version |-> PROTOCOL.VERSION,
           protocolId |-> PROTOCOL.PROTOCOL_ID,
           senderPublicKey |-> senderPublicKey,
           ephemeralPublicKey |-> ephemeral.publicKey,
           nonce |-> nonce,
           encryptedSenderKey |-> encryptedSenderKey,
           ciphertext |-> ciphertextWithTag])

encryptMessage(plaintext, senderPrivateKey, senderPublicKey, recipientPublicKey, rnd) ==
    LET messageBytes == TextEncoderEncode(plaintext) IN
    IF length(messageBytes) > PROTOCOL.MAX_PAYLOAD_SIZE THEN Err("PayloadTooLarge")
    ELSE
    LET ephemeral == generateEphemeralKeyPair(rnd)
        sharedSecret == x25519ECDH(ephemeral.privateKey, recipientPublicKey)
        info == concatBytes(<<ENCRYPTION_INFO_PREFIX, senderPublicKey, recipientPublicKey>>)
        symmetricKey == hkdf(sharedSecret.value, ephemeral.publicKey, info, 32)
        nonce == rnd.nonce
        ciphertextWithTag == chachaEncrypt(symmetricKey, nonce, messageBytes)
        senderSharedSecret == x25519ECDH(ephemeral.privateKey, senderPublicKey)
        senderInfo == concatBytes(<<SENDER_KEY_INFO_PREFIX, senderPublicKey>>)
        senderEncryptionKey == hkdf(senderSharedSecret.value, ephemeral.publicKey, senderInfo, 32)
        encryptedSenderKey == chachaEncrypt(senderEncryptionKey, nonce, symmetricKey)
    IN IF ~sharedSecret.ok THEN sharedSecret
       ELSE IF ~senderSharedSecret.ok THEN senderSharedSecret
       ELSE Ok([version |-> PROTOCOL.VERSION,
           protocolId |-> PROTOCOL.PROTOCOL_ID,
           senderPublicKey |-> senderPublicKey,
           ephemeralPublicKey |-> ephemeral.publicKey,
           nonce |-> nonce,
           encryptedSenderKey |-> encryptedSenderKey,
           ciphertext |-> ciphertextWithTag])

\* Variant: the two public keys of the info swapped.
decryptAsRecipient_swapsKeys(envelope, recipientPrivateKey, recipientPublicKey) ==
    LET sharedSecret == x25519ECDH(recipientPrivateKey, envelope.ephemeralPublicKey)
        info == concatBytes(<<ENCRYPTION_INFO_PREFIX, recipientPublicKey, envelope.senderPublicKey>>)
        symmetricKey == hkdf(sharedSecret.value, envelope.ephemeralPublicKey, info, 32)
    IN IF ~sharedSecret.ok THEN sharedSecret
       ELSE chachaDecrypt(symmetricKey, envelope.nonce, envelope.ciphertext)

decryptAsRecipient(envelope, recipientPrivateKey, recipientPublicKey) ==
    LET sharedSecret == x25519ECDH(recipientPrivateKey, envelope.ephemeralPublicKey)
        info == concatBytes(<<ENCRYPTION_INFO_PREFIX, envelope.senderPublicKey, recipientPublicKey>>)
        symmetricKey == hkdf(sharedSecret.value, envelope.ephemeralPublicKey, info, 32)
    IN IF ~sharedSecret.ok THEN sharedSecret
       ELSE chachaDecrypt(symmetricKey, envelope.nonce, envelope.ciphertext)

\* Variant: the sender key derived with the prefix of the message key.
decryptAsSender_wrongPrefix(envelope, senderPrivateKey, senderPublicKey) ==
    LET sharedSecret == x25519ECDH(senderPrivateKey, envelope.ephemeralPublicKey)
        senderInfo == concatBytes(<<ENCRYPTION_INFO_PREFIX, senderPublicKey>>)
        senderDecryptionKey == hkdf(sharedSecret.value, envelope.ephemeralPublicKey, senderInfo, 32)
        symmetricKey == chachaDecrypt(senderDecryptionKey, envelope.nonce, envelope.encryptedSenderKey)
    IN IF ~sharedSecret.ok THEN sharedSecret
       ELSE IF ~symmetricKey.ok THEN symmetricKey
       ELSE chachaDecrypt(symmetricKey.value, envelope.nonce, envelope.ciphertext)

decryptAsSender(envelope, senderPrivateKey, senderPublicKey) ==
    LET sharedSecret == x25519ECDH(senderPrivateKey, envelope.ephemeralPublicKey)
        senderInfo == concatBytes(<<SENDER_KEY_INFO_PREFIX, senderPublicKey>>)
        senderDecryptionKey == hkdf(sharedSecret.value, envelope.ephemeralPublicKey, senderInfo, 32)
        symmetricKey == chachaDecrypt(senderDecryptionKey, envelope.nonce, envelope.encryptedSenderKey)
    IN IF ~sharedSecret.ok THEN sharedSecret
       ELSE IF ~symmetricKey.ok THEN symmetricKey
       ELSE chachaDecrypt(symmetricKey.value, envelope.nonce, envelope.ciphertext)

isKeyPublishPayload(data) ==
    IF length(data) = 0 \/ at(data, 0) # 123 THEN FALSE
    ELSE LET json == JSONParse(TextDecoderDecode(data)) IN
         IF json.throws THEN FALSE ELSE json.isKeyPublish

parseMessagePayload(data) ==
    LET text == TextDecoderDecode(data)
        json == JSONParse(text)
    IN IF startsWithBrace(text) /\ ~json.throws /\ json.textIsString
       THEN [text |-> json.text]
       ELSE [text |-> text]

decryptMessage(envelope, myPrivateKey, myPublicKey) ==
    LET weAreSender == uint8ArrayEquals(myPublicKey, envelope.senderPublicKey)
        plaintext == IF weAreSender
                     THEN decryptAsSender(envelope, myPrivateKey, myPublicKey)
                     ELSE decryptAsRecipient(envelope, myPrivateKey, myPublicKey)
    IN IF ~plaintext.ok THEN plaintext
       ELSE IF isKeyPublishPayload(plaintext.value) THEN Ok(Null)
       ELSE Ok(parseMessagePayload(plaintext.value))

(***************************************************************************)
(* PSK protocol encryption (psk-encryption.ts).                            *)
(***************************************************************************)
pskEncryptMessage(plaintext, senderPublicKey, recipientPublicKey, initialPSK, counter, rnd) ==
    LET messageBytes == TextEncoderEncode(plaintext) IN
    IF length(messageBytes) > PSK_PROTOCOL.MAX_PAYLOAD_SIZE THEN Err("PayloadTooLarge")
    ELSE
    LET currentPSK == derivePSKAtCounter(initialPSK, counter)
        ephPriv == rnd.ephPriv
        ephPub == getPublicKey(ephPriv)
        sharedSecret == getSharedSecret(ephPriv, recipientPublicKey)
        symmetricKey == deriveHybridSymmetricKey(sharedSecret.value, currentPSK, ephPub,
                                                 senderPublicKey, recipientPublicKey)
        nonce == rnd.nonce
        ciphertextWithTag == chachaEncrypt(symmetricKey, nonce, messageBytes)
        senderSharedSecret == getSharedSecret(ephPriv, senderPublicKey)
        senderEncryptionKey == deriveSenderKey(senderSharedSecret.value, currentPSK, ephPub,
                                               senderPublicKey)
        encryptedSenderKey == chachaEncrypt(senderEncryptionKey, nonce, symmetricKey)
    IN IF ~sharedSecret.ok THEN sharedSecret
       ELSE IF ~senderSharedSecret.ok THEN senderSharedSecret
       ELSE Ok([version |-> PSK_PROTOCOL.VERSION,
           protocolId |-> PSK_PROTOCOL.PROTOCOL_ID,
           counter |-> counter,
           senderPublicKey |-> senderPublicKey,
           ephemeralPublicKey |-> ephPub,
           nonce |-> nonce,
           encryptedSenderKey |-> encryptedSenderKey,
           ciphertext |-> ciphertextWithTag])

pskDecryptAsRecipient(envelope, recipientPrivateKey, recipientPublicKey, currentPSK) ==
    LET sharedSecret == getSharedSecret(recipientPrivateKey, envelope.ephemeralPublicKey)
        symmetricKey == deriveHybridSymmetricKey(sharedSecret.value, currentPSK,
                                                 envelope.ephemeralPublicKey,
                                                 envelope.senderPublicKey,
                                                 recipientPublicKey)
    IN IF ~sharedSecret.ok THEN sharedSecret
       ELSE chachaDecrypt(symmetricKey, envelope.nonce, envelope.ciphertext)

\* Variant: when the sender key does not open, the recipient path is tried.
pskDecryptAsSender_fallsBackToRecipient(envelope, senderPrivateKey, senderPublicKey, currentPSK) ==
    LET senderSharedSecret == getSharedSecret(senderPrivateKey, envelope.ephemeralPublicKey)
        senderDecryptionKey == deriveSenderKey(senderSharedSecret.value, currentPSK,
                                               envelope.ephemeralPublicKey,
                                               senderPublicKey)
        symmetricKey == chachaDecrypt(senderDecryptionKey, envelope.nonce,
                                      envelope.encryptedSenderKey)
    IN IF ~senderSharedSecret.ok THEN senderSharedSecret
       ELSE IF ~symmetricKey.ok
       THEN pskDecryptAsRecipient(envelope, senderPrivateKey, senderPublicKey, currentPSK)
       ELSE chachaDecrypt(symmetricKey.value, envelope.nonce, envelope.ciphertext)

pskDecryptAsSender(envelope, senderPrivateKey, senderPublicKey, currentPSK) ==
    LET senderSharedSecret == getSharedSecret(senderPrivateKey, envelope.ephemeralPublicKey)
        senderDecryptionKey == deriveSenderKey(senderSharedSecret.value, currentPSK,
                                               envelope.ephemeralPublicKey,
                                               senderPublicKey)
        symmetricKey == chachaDecrypt(senderDecryptionKey, envelope.nonce,
                                      envelope.encryptedSenderKey)
    IN IF ~senderSharedSecret.ok THEN senderSharedSecret
       ELSE IF ~symmetricKey.ok THEN symmetricKey
       ELSE chachaDecrypt(symmetricKey.value, envelope.nonce, envelope.ciphertext)

parsePSKPayload(data, counter) ==
    LET text == TextDecoderDecode(data)
        json == JSONParse(text)
    IN IF startsWithBrace(text) /\ ~json.throws /\ json.isKeyPublish
       THEN Null
       ELSE IF startsWithBrace(text) /\ ~json.throws /\ json.textIsString
       THEN [text |-> json.text, counter |-> counter]
       ELSE [text |-> text, counter |-> counter]

pskDecryptMessage(envelope, myPrivateKey, myPublicKey, initialPSK) ==
    LET weAreSender == uint8ArrayEquals(myPublicKey, envelope.senderPublicKey)
        currentPSK == derivePSKAtCounter(initialPSK, envelope.counter)
        plaintext == IF weAreSender
                     THEN pskDecryptAsSender(envelope, myPrivateKey, myPublicKey, currentPSK)
                     ELSE pskDecryptAsRecipient(envelope, myPrivateKey, myPublicKey, currentPSK)
    IN IF ~plaintext.ok THEN plaintext
       ELSE Ok(parsePSKPayload(plaintext.value, envelope.counter))

(***************************************************************************)
(* Identity keys (keys.ts).                                                *)
(***************************************************************************)
KEY_DERIVATION_SALT ==
    TextEncoderEncode(<<65, 108, 103, 111, 67, 104, 97, 116, 45, 118, 49, 45, 101,
                        110, 99, 114, 121, 112, 116, 105, 111, 110>>)

KEY_DERIVATION_INFO ==
    TextEncoderEncode(<<120, 50, 53, 53, 49, 57, 45, 107, 101, 121>>)

deriveEncryptionKeys(seed) ==
    IF length(seed) # 32 THEN Err("InvalidKeyLength")
    ELSE LET privateKey == hkdf(seed, KEY_DERIVATION_SALT, KEY_DERIVATION_INFO, 32) IN
         Ok([privateKey |-> privateKey, publicKey |-> getPublicKey(privateKey)])

\* randomBytes(n) / x25519.utils.randomSecretKey(): the id names the draw.
randomBytes(id, n) == Sym(<<"random", id>>, n)

(***************************************************************************)
(* Inputs.                                                                 *)
(***************************************************************************)
MaxSend == 2       \* advanceSendCounter calls explored
NumCounters == 4   \* distinct received counters explored
NumDraws == 1      \* distinct random draws (ephemeral secret, nonce) explored

\* Account seeds: 31 zero bytes and the party's number (psk.spec.ts).
Parties == {"alice", "bob", "carol"}
SeedOf(who) ==
    Lit(Repeat(0, 31) \o <<CASE who = "alice" -> 1 [] who = "bob" -> 2 [] OTHER -> 3>>)
KeysOf(who) == deriveEncryptionKeys(SeedOf(who)).value

InitialPSK == Lit(Repeat(170, 32))   \* 0xAA...AA
WrongPSK == Lit(Repeat(187, 32))     \* 0xBB...BB

Draws == {[ephPriv |-> randomBytes(<<"eph", d>>, 32),
           nonce |-> randomBytes(<<"nonce", d>>, 12)] : d \in 1..NumDraws}

\* Counters next to the window edges: with window W, the counters
\* 0, 1, W+1, W+2, 2(W+1), 2(W+1)+1, ...
CounterInputs ==
    {Num((i \div 2) * (PSK_PROTOCOL.COUNTER_WINDOW + 1) + (i % 2)) : i \in 0..(NumCounters - 1)}

SendTexts == {TxtHi, Repeat(97, PSK_PROTOCOL.MAX_PAYLOAD_SIZE + 1)}

(***************************************************************************)
(* The counter state of one peer.                                          *)
(***************************************************************************)
InitCrypto ==
    /\ cIn = None /\ cEnv = None /\ cTamper = None /\ cOut = None /\ cPc = "idle"

InitCodec ==
    /\ wEnv = None /\ wBytes = None /\ wOut = None /\ wPc = "idle"

\* The peers of the local user (alice), by address.
Addresses == {"bob", "carol"}

\* A new PSKService: no session; nothing in localStorage.
InitService ==
    /\ sessions = [a \in Addresses |-> None]
    /\ storage = [a \in Addresses |-> None]
    /\ svcOut = None

\* A new PSK storage service: no entry, nothing to save, nothing stored.
InitChat ==
    /\ entries = [a \in Addresses |-> None]
    /\ savePending = 0
    /\ saving = None
    /\ pskStore = None
    /\ pskMessageIds = {}
    /\ chatOut = None
    /\ initialized = FALSE
    /\ loads = <<>>

\* No PSK is being derived outside a message.
InitRatchet ==
    /\ rIn = None /\ rOut = None /\ rPc = "idle"

\* No exchange URI is being made.
InitUri ==
    /\ uIn = None /\ uUri = None /\ uOut = None /\ uPc = "idle"

\* No persistState is waiting; no key material is in use; no message is
\* being sent and none was.
InitPersist == persists = <<>> /\ sessionLoads = <<>>

InitKeys == kIn = None /\ kBuf = None /\ kPc = "idle"

InitSend == sends = <<>> /\ ledger = <<>> /\ sendCalls = 0

\* A new page: no session key, none asked for.
InitSessionKey == sessionKey = 0 /\ generating = {} /\ keysMade = 0

\* A new WalletService in a new tab: nothing stored, nobody connected.
InitWallet ==
    /\ account = None
    /\ sessionItem = None
    /\ persistItem = None
    /\ cachedPassword = None
    /\ flights = <<>>
    /\ walletOut = None
    /\ walletCalls = 0
    /\ disconnected = FALSE

InitCounter ==
    /\ state = createPSKState(InitialPSK).value
    /\ recorded = {}
    /\ lastRecv = None
    /\ sendLog = <<>>

(***************************************************************************)
(* Encryption runs: encrypt, optionally change the envelope, decrypt.      *)
(***************************************************************************)
\* Texts with their UTF-8 length.
ShortTexts ==
    {[text |-> <<>>, utf8 |-> 0],
     [text |-> TxtHi, utf8 |-> 2],
     [text |-> TxtJsonText, utf8 |-> 13],
     [text |-> TxtKeyPublish, utf8 |-> 22],
     [text |-> TxtJsonOther, utf8 |-> 7],
     [text |-> TxtBrace, utf8 |-> 3],
     [text |-> TxtBom, utf8 |-> 5],
     [text |-> TxtLoneSurrogate, utf8 |-> 4],
     [text |-> TxtEmoji, utf8 |-> 5]}

\* Texts at the payload cap and just past it, in 1-byte and 2-byte characters.
LongTexts(cap) ==
    {[text |-> Repeat(97, cap), utf8 |-> cap],
     [text |-> Repeat(97, cap + 1), utf8 |-> cap + 1],
     [text |-> Repeat(233, cap \div 2), utf8 |-> 2 * (cap \div 2)],
     [text |-> Repeat(233, cap \div 2 + 1), utf8 |-> 2 * (cap \div 2 + 1)]}

Pairs == {<<"alice", "bob">>, <<"alice", "alice">>}

CounterSamples == {Num(0), Num(99), Num(100), MAX_UINT32}

CryptoInputs ==
    {[proto |-> "base", text |-> t.text, utf8 |-> t.utf8, sender |-> p[1],
      recipient |-> p[2], psk |-> InitialPSK, counter |-> Num(0), rnd |-> r] :
        t \in ShortTexts \cup LongTexts(PROTOCOL.MAX_PAYLOAD_SIZE),
        p \in Pairs, r \in Draws}
    \cup
    {[proto |-> "psk", text |-> t.text, utf8 |-> t.utf8, sender |-> p[1],
      recipient |-> p[2], psk |-> InitialPSK, counter |-> c, rnd |-> r] :
        t \in ShortTexts \cup LongTexts(PSK_PROTOCOL.MAX_PAYLOAD_SIZE),
        p \in Pairs, c \in CounterSamples, r \in Draws}

EncryptRun(in) ==
    IF in.proto = "base"
    THEN encryptMessage(in.text, KeysOf(in.sender).privateKey,
                        KeysOf(in.sender).publicKey,
                        KeysOf(in.recipient).publicKey, in.rnd)
    ELSE pskEncryptMessage(in.text, KeysOf(in.sender).publicKey,
                           KeysOf(in.recipient).publicKey,
                           in.psk, in.counter, in.rnd)

DecryptRun(proto, envelope, who, psk) ==
    IF proto = "base"
    THEN decryptMessage(envelope, KeysOf(who).privateKey, KeysOf(who).publicKey)
    ELSE pskDecryptMessage(envelope, KeysOf(who).privateKey,
                           KeysOf(who).publicKey, psk)

\* The array with the byte at index i changed to some other value.
FlipByte(a, i) ==
    concatBytes(<<slice(a, 0, i),
                  Sym(<<"changed", slice(a, i, i + 1)>>, 1),
                  slice(a, i + 1, length(a))>>)

\* Single-byte changes: the first and the last byte of the ciphertext body,
\* of the tag, of the nonce and of the encrypted sender key.
ByteTargets(envelope) ==
    LET n == length(envelope.ciphertext) IN
    (IF n > 16 THEN {[field |-> "ciphertext", index |-> 0],
                     [field |-> "ciphertext", index |-> n - 17]}
     ELSE {})
    \cup {[field |-> "tag", index |-> n - 16], [field |-> "tag", index |-> n - 1]}
    \cup {[field |-> "nonce", index |-> 0], [field |-> "nonce", index |-> 11]}
    \cup {[field |-> "encryptedSenderKey", index |-> 0],
          [field |-> "encryptedSenderKey", index |-> 47]}

ChangeByte(envelope, t) ==
    IF t.field \in {"ciphertext", "tag"}
    THEN [envelope EXCEPT !.ciphertext = FlipByte(envelope.ciphertext, t.index)]
    ELSE IF t.field = "nonce"
    THEN [envelope EXCEPT !.nonce = FlipByte(envelope.nonce, t.index)]
    ELSE [envelope EXCEPT !.encryptedSenderKey =
                              FlipByte(envelope.encryptedSenderKey, t.index)]

\* No session is open during encryption and codec runs.
InitIdleCounter ==
    /\ state = None /\ recorded = {} /\ lastRecv = None /\ sendLog = <<>>

InitCryptoRun ==
    /\ cIn \in CryptoInputs
    /\ cEnv = None /\ cTamper = None /\ cOut = None /\ cPc = "start"
    /\ InitIdleCounter
    /\ InitCodec
    /\ InitService
    /\ InitChat
    /\ InitWallet
    /\ InitPersist
    /\ InitKeys
    /\ InitSend
    /\ InitSessionKey
    /\ InitUri
    /\ InitRatchet

Encrypt ==
    /\ cPc = "start"
    /\ cEnv' = EncryptRun(cIn)
    /\ cPc' = IF cEnv'.ok THEN "encrypted" ELSE "rejected"
    /\ UNCHANGED <<cIn, cTamper, cOut, exceptCrypto>>

\* One byte of the envelope is changed on the way.
TamperByte(t) ==
    /\ cPc = "encrypted"
    /\ cTamper = None
    /\ t \in ByteTargets(cEnv.value)
    /\ cEnv' = Ok(ChangeByte(cEnv.value, t))
    /\ cTamper' = t
    /\ UNCHANGED <<cIn, cOut, cPc, exceptCrypto>>

\* The counter of a PSK envelope is replaced by another one.
TamperCounter(counter) ==
    /\ cPc = "encrypted"
    /\ cTamper = None
    /\ cIn.proto = "psk"
    /\ counter # cEnv.value.counter
    /\ cEnv' = Ok([cEnv.value EXCEPT !.counter = counter])
    /\ cTamper' = [field |-> "counter", index |-> 0]
    /\ UNCHANGED <<cIn, cOut, cPc, exceptCrypto>>

Decrypt(who, psk) ==
    /\ cPc = "encrypted"
    /\ cIn.proto = "base" => psk = cIn.psk
    /\ cOut' = [who |-> who, psk |-> psk,
                result |-> DecryptRun(cIn.proto, cEnv.value, who, psk)]
    /\ cPc' = "done"
    /\ UNCHANGED <<cIn, cEnv, cTamper, exceptCrypto>>

NextCrypto ==
    \/ Encrypt
    \/ \E t \in {[field |-> f, index |-> i] :
                    f \in {"ciphertext", "tag", "nonce", "encryptedSenderKey"},
                    i \in 0..(PROTOCOL.MAX_PAYLOAD_SIZE + PROTOCOL.TAG_SIZE)} :
           TamperByte(t)
    \/ \E counter \in CounterSamples : TamperCounter(counter)
    \/ \E who \in Parties, psk \in {InitialPSK, WrongPSK} : Decrypt(who, psk)

SpecCrypto == InitCryptoRun /\ [][NextCrypto]_vars

(***************************************************************************)
(* Codec runs: encode an envelope, decode the bytes.                       *)
(***************************************************************************)
Fill(b, n) == Lit(Repeat(b, n))
Ramp(from, n) == Lit([i \in 1..n |-> (from + i) % 256])

\* Field contents: constant fills (psk.spec.ts) and running bytes.
FieldFills ==
    {[senderPublicKey |-> Fill(1, 32), ephemeralPublicKey |-> Fill(2, 32),
      nonce |-> Fill(3, 12), encryptedSenderKey |-> Fill(4, 48)],
     [senderPublicKey |-> Fill(0, 32), ephemeralPublicKey |-> Fill(255, 32),
      nonce |-> Fill(0, 12), encryptedSenderKey |-> Fill(255, 48)],
     [senderPublicKey |-> Ramp(0, 32), ephemeralPublicKey |-> Ramp(32, 32),
      nonce |-> Ramp(64, 12), encryptedSenderKey |-> Ramp(200, 48)]}

Ciphertexts ==
    {Fill(5, PROTOCOL.TAG_SIZE),
     Ramp(100, PROTOCOL.TAG_SIZE + 1),
     Ramp(7, PSK_PROTOCOL.MAX_PAYLOAD_SIZE + PSK_PROTOCOL.TAG_SIZE)}

WireCounters ==
    {Num(0), Num(1), Num(255), Num(256), Num(65535), [hi |-> 1, lo |-> 0],
     [hi |-> 258, lo |-> 772], MAX_UINT32}

CodecInputs ==
    {[version |-> PROTOCOL.VERSION, protocolId |-> PROTOCOL.PROTOCOL_ID,
      senderPublicKey |-> f.senderPublicKey,
      ephemeralPublicKey |-> f.ephemeralPublicKey,
      nonce |-> f.nonce, encryptedSenderKey |-> f.encryptedSenderKey,
      ciphertext |-> ct] : f \in FieldFills, ct \in Ciphertexts}
    \cup
    {[version |-> PSK_PROTOCOL.VERSION, protocolId |-> PSK_PROTOCOL.PROTOCOL_ID,
      counter |-> c,
      senderPublicKey |-> f.senderPublicKey,
      ephemeralPublicKey |-> f.ephemeralPublicKey,
      nonce |-> f.nonce, encryptedSenderKey |-> f.encryptedSenderKey,
      ciphertext |-> ct] : f \in FieldFills, ct \in Ciphertexts, c \in WireCounters}

IsPSKEnvelope(envelope) == "counter" \in DOMAIN envelope

InitCodecRun ==
    /\ wEnv \in CodecInputs
    /\ wBytes = None /\ wOut = None /\ wPc = "start"
    /\ InitIdleCounter
    /\ InitCrypto
    /\ InitService
    /\ InitChat
    /\ InitWallet
    /\ InitPersist
    /\ InitKeys
    /\ InitSend
    /\ InitSessionKey
    /\ InitUri
    /\ InitRatchet

Encode ==
    /\ wPc = "start"
    /\ wBytes' = IF IsPSKEnvelope(wEnv) THEN encodePSKEnvelope(wEnv)
                 ELSE encodeEnvelope(wEnv)
    /\ wPc' = "encoded"
    /\ UNCHANGED <<wEnv, wOut, exceptCodec>>

Decode ==
    /\ wPc = "encoded"
    /\ wOut' = IF IsPSKEnvelope(wEnv) THEN decodePSKEnvelope(wBytes)
               ELSE decodeEnvelope(wBytes)
    /\ wPc' = "decoded"
    /\ UNCHANGED <<wEnv, wBytes, exceptCodec>>

NextCodec == Encode \/ Decode

SpecCodec == InitCodecRun /\ [][NextCodec]_vars

(***************************************************************************)
(* The ratchet on its own: the PSK of two counters, each given as a        *)
(* session and a position within it.                                       *)
(***************************************************************************)
\* Sessions: the first three, the one that holds counter 65536, the last.
RatchetSessions == {0, 1, 2, 655, 42949672}
RatchetPositions == {0, 1, 36, 95, 99}

\* The counter of a position in a session: SESSION_SIZE * session + position.
CounterOf(sp) ==
    LET low == PSK_PROTOCOL.SESSION_SIZE * (sp.session % Limb) + sp.position
    IN [hi |-> PSK_PROTOCOL.SESSION_SIZE * (sp.session \div Limb) + low \div Limb,
        lo |-> low % Limb]

\* The places whose counter is a uint32.
RatchetPlaces ==
    {sp \in [session : RatchetSessions, position : RatchetPositions] :
         NumLeq(CounterOf(sp), MAX_UINT32)}

InitRatchetRun ==
    /\ rIn \in [psk : {InitialPSK, WrongPSK}, a : RatchetPlaces, b : RatchetPlaces]
    /\ rOut = None /\ rPc = "start"
    /\ InitIdleCounter
    /\ InitCrypto
    /\ InitCodec
    /\ InitService
    /\ InitChat
    /\ InitWallet
    /\ InitPersist
    /\ InitKeys
    /\ InitSend
    /\ InitSessionKey
    /\ InitUri

Derive ==
    /\ rPc = "start"
    /\ rOut' = [a |-> derivePSKAtCounter(rIn.psk, CounterOf(rIn.a)),
                b |-> derivePSKAtCounter(rIn.psk, CounterOf(rIn.b))]
    /\ rPc' = "derived"
    /\ UNCHANGED <<rIn, exceptRatchet>>

NextRatchet == Derive

SpecRatchet == InitRatchetRun /\ [][NextRatchet]_vars

(***************************************************************************)
(* Notes read from the ledger: any bytes are classified and decoded.       *)
(***************************************************************************)
\* Lengths around the minimum sizes (142, 146) and the note size (1024).
WireLengths == {0, 1, 2, 3, 141, 142, 145, 146, 147, 1023, 1024, 1025}

\* The first two bytes: version and protocol id, right and wrong.
WireHeads == {<<1, 1>>, <<1, 2>>, <<2, 1>>, <<2, 2>>, <<1, 3>>, <<0, 0>>}

WireInputs ==
    {Lit([i \in 1..n |-> IF i <= 2 THEN h[i] ELSE 0]) :
         n \in WireLengths, h \in WireHeads}

InitWireRun ==
    /\ wBytes \in WireInputs
    /\ wEnv = None /\ wOut = None /\ wPc = "start"
    /\ InitIdleCounter
    /\ InitCrypto
    /\ InitService
    /\ InitChat
    /\ InitWallet
    /\ InitPersist
    /\ InitKeys
    /\ InitSend
    /\ InitSessionKey
    /\ InitUri
    /\ InitRatchet

Classify ==
    /\ wPc = "start"
    /\ wOut' = [op |-> "classify",
                isChatMessage |-> isChatMessage(wBytes),
                isPSKMessage |-> isPSKMessage(wBytes)]
    /\ wPc' = "done"
    /\ UNCHANGED <<wEnv, wBytes, exceptCodec>>

DecodeBase ==
    /\ wPc = "start"
    /\ wOut' = [op |-> "decodeEnvelope", result |-> decodeEnvelope(wBytes),
                minSize |-> PROTOCOL.HEADER_SIZE + PROTOCOL.TAG_SIZE,
                protocolId |-> PROTOCOL.PROTOCOL_ID]
    /\ wPc' = "done"
    /\ UNCHANGED <<wEnv, wBytes, exceptCodec>>

DecodePSK ==
    /\ wPc = "start"
    /\ wOut' = [op |-> "decodePSKEnvelope", result |-> decodePSKEnvelope(wBytes),
                minSize |-> PSK_PROTOCOL.HEADER_SIZE + PSK_PROTOCOL.TAG_SIZE,
                protocolId |-> PSK_PROTOCOL.PROTOCOL_ID]
    /\ wPc' = "done"
    /\ UNCHANGED <<wEnv, wBytes, exceptCodec>>

NextWire == Classify \/ DecodeBase \/ DecodePSK

SpecWire == InitWireRun /\ [][NextWire]_vars

(***************************************************************************)
(* Stored state (psk-state.ts serializePSKState / deserializePSKState).    *)
(* A JSON value is a number (a pair of limbs), [arr |-> elements],         *)
(* [str |-> characters], Null, or an object: a record of members.  The     *)
(* order of the elements of receivedCounters is left out.  A text is       *)
(* [json |-> v], the JSON document that JSON.parse reads as v, or          *)
(* [text |-> characters], characters that are not a JSON document.         *)
(***************************************************************************)
IsNumber(v) == DOMAIN v = {"hi", "lo"}
IsArray(v) == DOMAIN v = {"arr"}
IsString(v) == DOMAIN v = {"str"}
IsObject(v) == ~IsNumber(v) /\ ~IsArray(v) /\ ~IsString(v) /\ v # Null

\* Array.from(bytes): the bytes of a literal array.
ArrayFrom(a) == IF a = <<>> THEN <<>> ELSE a[1].lit

JSONStringify(v) == [json |-> v]

JSONParseText(t) ==
    IF "json" \in DOMAIN t THEN Ok(t.json) ELSE Err("SyntaxError")

serializePSKState(st) ==
    JSONStringify([initialPSK |-> [arr |-> ArrayFrom(st.initialPSK)],
                   sendCounter |-> st.sendCounter,
                   receiveCounter |-> st.receiveCounter,
                   receivedCounters |-> [arr |-> st.receivedCounters]])

(***************************************************************************)
(* PSKService (psk.service.ts): the sessions of the local user, alice.     *)
(***************************************************************************)
MaxSessionSend == 1   \* PSKService.encrypt calls explored per session

\* persistState(address, state)
persistState(store, address, st) ==
    [store EXCEPT ![address] = serializePSKState(st)]

\* removePersistedState(address)
removePersistedState(store, address) == [store EXCEPT ![address] = None]

(***************************************************************************)
(* The session with bob, step by step.                                     *)
(***************************************************************************)
\* The session with bob is the one PSKState followed here (state), as
\* initSession left it: persisted under bob's address.
InitStored ==
    /\ sessions = [a \in Addresses |-> None]
    /\ storage = persistState([a \in Addresses |-> None], "bob", state)
    /\ svcOut = None

Init == InitCounter /\ InitCrypto /\ InitCodec /\ InitStored /\ InitChat /\ InitWallet /\ InitUri
        /\ InitRatchet /\ InitPersist /\ InitKeys /\ InitSend /\ InitSessionKey

\* What a step on the one session leaves alone besides the counter machine.
exceptSession ==
    <<cryptoVars, codecVars, sessions, chatVars, walletVars, uriVars, ratchetVars,
      persistVars, keyVars, sendVars, sessionKeyVars, loadVars>>

\* PSKService.encrypt on the session with bob: the counter is advanced, the
\* message is encrypted under it, the state is persisted and the encoded
\* envelope returned; an encryption error leaves the counter advanced and
\* the stored state as it was.  When advanceSendCounter throws, nothing is
\* changed.
Send(text, rnd) ==
    /\ Len(sendLog) < MaxSend
    /\ LET adv == advanceSendCounter(state) IN
       IF adv.ok
       THEN LET envelope == pskEncryptMessage(text, KeysOf("alice").publicKey,
                                              KeysOf("bob").publicKey,
                                              adv.value.state.initialPSK,
                                              adv.value.counter, rnd)
            IN /\ state' = adv.value.state
               /\ storage' = IF envelope.ok
                             THEN persistState(storage, "bob", adv.value.state)
                             ELSE storage
               /\ svcOut' = [op |-> "encrypt", address |-> "bob",
                             result |-> IF envelope.ok
                                        THEN Ok(encodePSKEnvelope(envelope.value))
                                        ELSE envelope]
               /\ sendLog' = Append(sendLog, [counter |-> adv.value.counter,
                                              ok |-> envelope.ok,
                                              pre |-> state.sendCounter])
       ELSE /\ state' = state
            /\ storage' = storage
            /\ svcOut' = [op |-> "encrypt", address |-> "bob", result |-> adv]
            /\ sendLog' = Append(sendLog, [counter |-> None, ok |-> FALSE,
                                           pre |-> state.sendCounter])
    /\ UNCHANGED <<recorded, lastRecv, exceptSession>>

\* validateReceiveCounter, then recordReceivedCounter when it accepted (the
\* two functions of psk-state.ts on the session's state; nothing is persisted).
Receive(counter) ==
    /\ LET accepted == validateReceiveCounter(state, counter) IN
       /\ state' = IF accepted THEN recordReceivedCounter(state, counter) ELSE state
       /\ recorded' = IF accepted THEN recorded \cup {counter} ELSE recorded
       /\ lastRecv' = [op |-> "receive", counter |-> counter, accepted |-> accepted,
                       replay |-> counter \in recorded,
                       preHigh |-> state.receiveCounter,
                       preEmpty |-> state.receivedCounters = {}]
    /\ UNCHANGED <<sendLog, exceptCounter>>

\* recordReceivedCounter on its own.
Record(counter) ==
    /\ state' = recordReceivedCounter(state, counter)
    /\ recorded' = recorded \cup {counter}
    /\ lastRecv' = [op |-> "record", counter |-> counter, accepted |-> TRUE,
                    replay |-> counter \in recorded,
                       preHigh |-> state.receiveCounter,
                       preEmpty |-> state.receivedCounters = {}]
    /\ UNCHANGED <<sendLog, exceptCounter>>

Next ==
    \/ \E text \in SendTexts, rnd \in Draws : Send(text, rnd)
    \/ \E counter \in CounterInputs : Receive(counter)
    \/ \E counter \in CounterInputs : Record(counter)

Spec == Init /\ [][Next]_vars

\* A session late in its life: the send counter has nearly run through the
\* 32-bit range.
LateSendCounters == {NumSub(MAX_UINT32, Num(2)), NumSub(MAX_UINT32, Num(1)), MAX_UINT32}

InitLate ==
    /\ \E c \in LateSendCounters :
           state = [createPSKState(InitialPSK).value EXCEPT !.sendCounter = c]
    /\ recorded = {}
    /\ lastRecv = None
    /\ sendLog = <<>>
    /\ InitCrypto
    /\ InitCodec
    /\ InitStored
    /\ InitChat
    /\ InitWallet
    /\ InitPersist
    /\ InitKeys
    /\ InitSend
    /\ InitSessionKey
    /\ InitUri
    /\ InitRatchet

SpecLate == InitLate /\ [][Next]_vars

initSession(address, initialPSK) ==
    LET st == createPSKState(initialPSK) IN
    /\ sessions' = IF st.ok THEN [sessions EXCEPT ![address] = st.value] ELSE sessions
    /\ storage' = IF st.ok THEN persistState(storage, address, st.value) ELSE storage
    /\ svcOut' = [op |-> "initSession", address |-> address,
                  initialPSK |-> initialPSK,
                  result |-> IF st.ok THEN Ok(Null) ELSE st]
    /\ UNCHANGED exceptService

removeSession(address) ==
    /\ sessions' = [sessions EXCEPT ![address] = None]
    /\ storage' = removePersistedState(storage, address)
    /\ svcOut' = [op |-> "removeSession", address |-> address, result |-> Ok(Null)]
    /\ UNCHANGED exceptService

\* PSKService.encrypt(address, plaintext, senderPublicKey, recipientPublicKey)
encrypt(address, plaintext, senderPublicKey, recipientPublicKey, rnd) ==
    LET st == sessions[address]
        adv == advanceSendCounter(st)
        envelope == pskEncryptMessage(plaintext, senderPublicKey, recipientPublicKey,
                                      st.initialPSK, adv.value.counter, rnd)
        out == IF st = None THEN Err("NoSession")
               ELSE IF ~adv.ok THEN adv
               ELSE IF ~envelope.ok THEN envelope
               ELSE Ok(encodePSKEnvelope(envelope.value))
    IN /\ st # None => NumLess(st.sendCounter, Num(MaxSessionSend))
       /\ sessions' = IF st # None /\ adv.ok
                      THEN [sessions EXCEPT ![address] = adv.value.state]
                      ELSE sessions
       /\ storage' = IF out.ok THEN persistState(storage, address, adv.value.state)
                     ELSE storage
       /\ svcOut' = [op |-> "encrypt", address |-> address, result |-> out]
       /\ UNCHANGED exceptService

\* (variant: the counter is recorded as soon as the window accepts it)
decrypt_recordsOnceValidated(address, noteBytes, myPrivateKey, myPublicKey) ==
    LET st == sessions[address]
        envelope == decodePSKEnvelope(noteBytes)
        decrypted == pskDecryptMessage(envelope.value, myPrivateKey, myPublicKey,
                                       st.initialPSK)
        out == IF st = None THEN Ok(Null)
               ELSE IF ~isPSKMessage(noteBytes) THEN Ok(Null)
               ELSE IF ~envelope.ok THEN envelope
               ELSE IF ~validateReceiveCounter(st, envelope.value.counter) THEN Ok(Null)
               ELSE decrypted
        records == /\ st # None /\ isPSKMessage(noteBytes) /\ envelope.ok
                   /\ validateReceiveCounter(st, envelope.value.counter)
        after == recordReceivedCounter(st, envelope.value.counter)
    IN /\ sessions' = IF records THEN [sessions EXCEPT ![address] = after] ELSE sessions
       /\ storage' = IF records THEN persistState(storage, address, after) ELSE storage
       /\ svcOut' = [op |-> "decrypt", address |-> address, note |-> noteBytes,
                     result |-> out]
       /\ UNCHANGED exceptService

\* PSKService.decrypt(address, noteBytes, myPrivateKey, myPublicKey)
decrypt(address, noteBytes, myPrivateKey, myPublicKey) ==
    LET st == sessions[address]
        envelope == decodePSKEnvelope(noteBytes)
        decrypted == pskDecryptMessage(envelope.value, myPrivateKey, myPublicKey,
                                       st.initialPSK)
        out == IF st = None THEN Ok(Null)
               ELSE IF ~isPSKMessage(noteBytes) THEN Ok(Null)
               ELSE IF ~envelope.ok THEN envelope
               ELSE IF ~validateReceiveCounter(st, envelope.value.counter) THEN Ok(Null)
               ELSE decrypted
        records == out.ok /\ out.value # Null
        after == recordReceivedCounter(st, envelope.value.counter)
    IN /\ sessions' = IF records THEN [sessions EXCEPT ![address] = after] ELSE sessions
       /\ storage' = IF records THEN persistState(storage, address, after) ELSE storage
       /\ svcOut' = [op |-> "decrypt", address |-> address, note |-> noteBytes,
                     result |-> out]
       /\ UNCHANGED exceptService

\* Notes on the ledger: PSK messages of the peers to alice, a message alice
\* sent, a message under another PSK, a key-publish message, a base-protocol
\* message, and two bytes that are no message.
NoteOf(sender, recipient, psk, counter, text) ==
    encodePSKEnvelope(
        pskEncryptMessage(text, KeysOf(sender).publicKey, KeysOf(recipient).publicKey,
                          psk, counter, CHOOSE d \in Draws : TRUE).value)

ServiceCounters == {Num(0), Num(201)}

PeerNotes == {NoteOf("bob", "alice", InitialPSK, c, TxtHi) : c \in ServiceCounters}
OwnNote == NoteOf("alice", "bob", InitialPSK, Num(0), TxtHi)
WrongPSKNote == NoteOf("bob", "alice", WrongPSK, Num(1), TxtHi)
KeyPublishNote == NoteOf("bob", "alice", InitialPSK, Num(1), TxtKeyPublish)
BaseNote ==
    encodeEnvelope(encryptMessage(TxtHi, KeysOf("bob").privateKey, KeysOf("bob").publicKey,
                                  KeysOf("alice").publicKey,
                                  CHOOSE d \in Draws : TRUE).value)
NoNote == Lit(<<1, 2>>)

\* A note of bob whose ephemeral public key is the point of order 1.
LowOrderNote ==
    encodePSKEnvelope(
        [pskEncryptMessage(TxtHi, KeysOf("bob").publicKey, KeysOf("alice").publicKey,
                           InitialPSK, Num(1), CHOOSE d \in Draws : TRUE).value
            EXCEPT !.ephemeralPublicKey = Zeros(32)])

ServiceNotes ==
    PeerNotes \cup {OwnNote, WrongPSKNote, KeyPublishNote, BaseNote, NoNote, LowOrderNote}

\* A 32-byte PSK and one of the wrong length.
ServicePSKs == {InitialPSK, Lit(Repeat(170, 16))}

NextService ==
    \/ \E address \in Addresses, initialPSK \in ServicePSKs :
           initSession(address, initialPSK)
    \/ \E address \in Addresses : removeSession(address)
    \/ \E address \in Addresses, text \in SendTexts, rnd \in Draws :
           encrypt(address, text, KeysOf("alice").publicKey,
                   KeysOf(address).publicKey, rnd)
    \/ \E address \in Addresses, note \in ServiceNotes :
           decrypt(address, note, KeysOf("alice").privateKey,
                   KeysOf("alice").publicKey)

InitServiceRun ==
    /\ InitService
    /\ InitIdleCounter
    /\ InitCrypto
    /\ InitCodec
    /\ InitChat
    /\ InitWallet
    /\ InitPersist
    /\ InitKeys
    /\ InitSend
    /\ InitSessionKey
    /\ InitUri
    /\ InitRatchet

SpecService == InitServiceRun /\ [][NextService]_vars

(***************************************************************************)
(* Loading stored sessions (psk-state.ts deserializePSKState,              *)
(* psk.service.ts loadPersistedSessions).                                  *)
(***************************************************************************)
Undefined == [undefined |-> TRUE]

\* data.name: undefined when data has no such member.
Member(data, name) ==
    IF IsObject(data) /\ data # Undefined /\ name \in DOMAIN data
    THEN data[name] ELSE Undefined

\* The name of the index member i of an object: "0", "1", ...
DigitName == <<"0", "1", "2", "3", "4", "5", "6", "7", "8", "9">>

RECURSIVE IndexName(_)
IndexName(i) ==
    IF i < 10 THEN DigitName[i + 1]
    ELSE IndexName(i \div 10) \o DigitName[(i % 10) + 1]

\* The number a string of decimal digits is read as (at most four digits
\* here); every other string used here reads as NaN (-1).
RECURSIVE DigitsValue(_)
DigitsValue(chars) ==
    IF Len(chars) = 0 THEN 0
    ELSE 10 * DigitsValue(SubSeq(chars, 1, Len(chars) - 1)) + (chars[Len(chars)] - 48)

StringToNumber(v) ==
    IF Len(v.str) \in 1..4 /\ \A i \in 1..Len(v.str) : v.str[i] \in 48..57
    THEN DigitsValue(v.str) ELSE -1

\* A length or an element read from a JSON value: a number, a string that
\* is a number; 0 for anything else (NaN).
ToIntegerOrZero(v) ==
    IF v = Undefined \/ v = Null THEN 0
    ELSE IF IsNumber(v) THEN v.hi * Limb + v.lo
    ELSE IF IsString(v) THEN Max(StringToNumber(v), 0)
    ELSE 0

\* new Uint8Array(x): the elements of an array as bytes; x zeros for a
\* number and for a string that is a number; for an object, as many
\* elements as its length member says, each read from the member of its
\* index; empty for undefined, null and a string that is not a number.
newUint8Array(x) ==
    IF x = Undefined \/ x = Null THEN <<>>
    ELSE IF IsArray(x) THEN Lit([i \in 1..Len(x.arr) |-> x.arr[i] % 256])
    ELSE IF IsNumber(x) \/ IsString(x) THEN Zeros(ToIntegerOrZero(x))
    ELSE Lit([i \in 1..ToIntegerOrZero(Member(x, "length")) |->
                 ToIntegerOrZero(Member(x, IndexName(i - 1))) % 256])

\* new Set(x): empty for undefined and null, the elements of an array, the
\* characters of a string; a number and an object are not iterable.
newSet(x) ==
    IF x = Undefined \/ x = Null THEN Ok({})
    ELSE IF IsArray(x) THEN Ok(x.arr)
    ELSE IF IsString(x) THEN Ok({<<x.str[i]>> : i \in 1..Len(x.str)})
    ELSE Err("TypeError")

deserializePSKState(json) ==
    LET parsed == JSONParseText(json)
        data == parsed.value
        receivedCounters == newSet(Member(data, "receivedCounters"))
    IN IF ~parsed.ok THEN parsed
       ELSE IF data = Null THEN Err("TypeError")
       ELSE IF ~receivedCounters.ok THEN receivedCounters
       ELSE Ok([initialPSK |-> newUint8Array(Member(data, "initialPSK")),
                sendCounter |-> Member(data, "sendCounter"),
                receiveCounter |-> Member(data, "receiveCounter"),
                receivedCounters |-> receivedCounters.value])

\* loadPersistedSessions(): every stored text that deserializes becomes the
\* session of its address; the others are skipped.
loadPersistedSessions ==
    /\ svcOut = None
    /\ sessions' = [a \in Addresses |->
                       IF storage[a] # None /\ deserializePSKState(storage[a]).ok
                       THEN deserializePSKState(storage[a]).value
                       ELSE sessions[a]]
    /\ svcOut' = [op |-> "loadPersistedSessions", result |-> Ok(Null)]
    /\ UNCHANGED <<storage, exceptService>>

\* What localStorage may hold for an address: the text of a state that was
\* persisted, and texts that are no such state.
StoredState ==
    [createPSKState(InitialPSK).value EXCEPT
         !.sendCounter = Num(3), !.receiveCounter = Num(7),
         !.receivedCounters = {Num(5), Num(7)}]

StoredObject == serializePSKState(StoredState).json

StoredTexts ==
    {serializePSKState(StoredState),
     [text |-> TxtBrace],                                          \* {hi
     JSONStringify(Null),                                          \* null
     JSONStringify(Num(5)),                                        \* 5
     JSONStringify([arr |-> <<>>]),                                \* []
     JSONStringify([unrelated |-> Num(1)]),                        \* {"unrelated":1}
     JSONStringify([initialPSK |-> StoredObject.initialPSK,
                    receiveCounter |-> StoredObject.receiveCounter,
                    receivedCounters |-> StoredObject.receivedCounters]),
                                                      \* sendCounter is missing
     JSONStringify([StoredObject EXCEPT !.sendCounter = [str |-> TxtHi]]),
                                                      \* sendCounter is "hi"
     JSONStringify([StoredObject EXCEPT !.receivedCounters = Num(5)]),
                                                      \* receivedCounters is 5
     JSONStringify([StoredObject EXCEPT !.initialPSK = [arr |-> <<1, 2, 3>>]]),
                                                      \* a PSK of three bytes
     JSONStringify([StoredObject EXCEPT
                        !.initialPSK = ("length" :> Num(2)) @@ ("0" :> Num(7))])}
                                                      \* a PSK {"length":2,"0":7}

InitStorageRun ==
    /\ storage \in [Addresses -> StoredTexts \cup {None}]
    /\ sessions = [a \in Addresses |-> None]
    /\ svcOut = None
    /\ InitIdleCounter
    /\ InitCrypto
    /\ InitCodec
    /\ InitChat
    /\ InitWallet
    /\ InitPersist
    /\ InitKeys
    /\ InitSend
    /\ InitSessionKey
    /\ InitUri
    /\ InitRatchet

NextStorage == loadPersistedSessions

SpecStorage == InitStorageRun /\ [][NextStorage]_vars

(***************************************************************************)
(* Base64 (btoa / atob).  A string is the sequence of its character codes. *)
(***************************************************************************)
Pow2(n) == IF n = 0 THEN 1 ELSE IF n = 2 THEN 4 ELSE IF n = 4 THEN 16 ELSE 64

\* The character of a six-bit value, and back (-1: not in the alphabet).
Base64Char(v) ==
    IF v < 26 THEN 65 + v
    ELSE IF v < 52 THEN 97 + (v - 26)
    ELSE IF v < 62 THEN 48 + (v - 52)
    ELSE IF v = 62 THEN 43 ELSE 47

Base64Value(c) ==
    IF c >= 65 /\ c <= 90 THEN c - 65
    ELSE IF c >= 97 /\ c <= 122 THEN c - 97 + 26
    ELSE IF c >= 48 /\ c <= 57 THEN c - 48 + 52
    ELSE IF c = 43 THEN 62
    ELSE IF c = 47 THEN 63 ELSE -1

\* btoa(binary), binary the string whose character codes are the bytes.
btoa(bytes) ==
    LET n == Len(bytes)
        groups == (n + 2) \div 3
        byte(i) == IF i <= n THEN bytes[i] ELSE 0
        char(j) ==
            LET g == (j - 1) \div 4
                p == (j - 1) % 4
                b0 == byte(3 * g + 1)
                b1 == byte(3 * g + 2)
                b2 == byte(3 * g + 3)
            IN IF p = 0 THEN Base64Char(b0 \div 4)
               ELSE IF p = 1 THEN Base64Char((b0 % 4) * 16 + b1 \div 16)
               ELSE IF p = 2
               THEN IF 3 * g + 2 > n THEN 61
                    ELSE Base64Char((b1 % 16) * 4 + b2 \div 64)
               ELSE IF 3 * g + 3 > n THEN 61 ELSE Base64Char(b2 % 64)
    IN [j \in 1..(4 * groups) |-> char(j)]

\* Tab, line feed, form feed, carriage return and space.
IsAsciiWhitespace(c) == c \in {9, 10, 12, 13, 32}

\* atob(base64): the bytes, or InvalidCharacterError.  ASCII whitespace is
\* removed first; padding is accepted only where it completes a group of
\* four.
atob(base64) ==
    LET chars == SelectSeq(base64, LAMBDA c : ~IsAsciiWhitespace(c))
        n == Len(chars)
        pad == IF n % 4 = 0 /\ n >= 2 /\ chars[n] = 61
               THEN IF chars[n - 1] = 61 THEN 2 ELSE 1
               ELSE 0
        m == n - pad
        v(i) == Base64Value(chars[i])
        count == (m * 6) \div 8
        byte(i) ==
            LET s == (8 * i) \div 6 + 1
                r == (8 * i) % 6
            IN ((v(s) * 64 + v(s + 1)) \div Pow2(4 - r)) % 256
    IN IF m % 4 = 1 \/ \E i \in 1..m : v(i) = -1
       THEN Err("InvalidCharacterError")
       ELSE Ok([i \in 1..count |-> byte(i - 1)])

(***************************************************************************)
(* PSK exchange URI (psk-exchange.ts).                                     *)
(***************************************************************************)
\* The concatenation of a sequence of sequences, by halves.
RECURSIVE Flatten(_)
Flatten(ss) ==
    IF Len(ss) = 0 THEN <<>>
    ELSE IF Len(ss) = 1 THEN ss[1]
    ELSE LET h == Len(ss) \div 2 IN
         Flatten(SubSeq(ss, 1, h)) \o Flatten(SubSeq(ss, h + 1, Len(ss)))

\* uint8ArrayToBase64url: btoa, then + to -, / to _, and no padding.
uint8ArrayToBase64url(bytes) ==
    LET base64 == btoa(ArrayFrom(bytes))
        swapped == [i \in 1..Len(base64) |->
                       IF base64[i] = 43 THEN 45
                       ELSE IF base64[i] = 47 THEN 95 ELSE base64[i]]
        kept == {i \in 0..Len(swapped) : \A j \in (i + 1)..Len(swapped) : swapped[j] = 61}
    IN SubSeq(swapped, 1, CHOOSE i \in kept : \A k \in kept : i <= k)

\* base64urlToUint8Array: - to +, _ to /, padding added, atob.
base64urlToUint8Array(base64url) ==
    LET swapped == [i \in 1..Len(base64url) |->
                       IF base64url[i] = 45 THEN 43
                       ELSE IF base64url[i] = 95 THEN 47 ELSE base64url[i]]
        padding == (4 - (Len(swapped) % 4)) % 4
        binary == atob(swapped \o Repeat(61, padding))
    IN IF binary.ok THEN Ok(Lit(binary.value)) ELSE binary

\* Hexadecimal digits: encodeURIComponent writes upper case, the decoders
\* read both cases.
HexDigit(v) == IF v < 10 THEN 48 + v ELSE 65 + (v - 10)
HexValue(c) ==
    IF c >= 48 /\ c <= 57 THEN c - 48
    ELSE IF c >= 65 /\ c <= 70 THEN c - 55
    ELSE IF c >= 97 /\ c <= 102 THEN c - 87 ELSE -1

\* A-Z a-z 0-9 - _ . ! ~ * ' ( )
IsUnreserved(c) ==
    \/ c >= 65 /\ c <= 90
    \/ c >= 97 /\ c <= 122
    \/ c >= 48 /\ c <= 57
    \/ c \in {45, 95, 46, 33, 126, 42, 39, 40, 41}

\* encodeURIComponent(s): URIError on an unpaired surrogate.
encodeURIComponent(s) ==
    IF \E i \in 1..Len(s) : IsSurrogate(s[i]) THEN Err("URIError")
    ELSE Ok(Flatten([i \in 1..Len(s) |->
                IF IsUnreserved(s[i]) THEN <<s[i]>>
                ELSE LET b == EncodeChar(s[i]) IN
                     Flatten([j \in 1..Len(b) |->
                                 <<37, HexDigit(b[j] \div 16), HexDigit(b[j] % 16)>>])]))

\* s[i] is a percent sign followed by two hexadecimal digits.
IsEscapeAt(s, i) ==
    /\ i >= 1 /\ i + 2 <= Len(s)
    /\ s[i] = 37
    /\ HexValue(s[i + 1]) >= 0
    /\ HexValue(s[i + 2]) >= 0

EscapedByte(s, i) == 16 * HexValue(s[i + 1]) + HexValue(s[i + 2])

InEscape(s, i) == IsEscapeAt(s, i - 1) \/ IsEscapeAt(s, i - 2)

\* The value of a form-urlencoded name or value: + is a space, well-formed
\* escapes are bytes, everything else stays, and the bytes are read as UTF-8.
FormDecode(s) ==
    LET spaced == [i \in 1..Len(s) |-> IF s[i] = 43 THEN 32 ELSE s[i]] IN
    Utf8Chars(Flatten([i \in 1..Len(spaced) |->
                 IF IsEscapeAt(spaced, i) THEN <<EscapedByte(spaced, i)>>
                 ELSE IF InEscape(spaced, i) THEN <<>>
                 ELSE EncodeChar(spaced[i])]))

\* new URLSearchParams(init).get(name): the value of the first pair of that
\* name, or Null.  Pairs are separated by &, name and value by the first =.
URLSearchParamsGet(init, name) ==
    LET q == IF Len(init) > 0 /\ init[1] = 63 THEN Tail(init) ELSE init
        n == Len(q)
        starts == {p \in 1..n : q[p] # 38 /\ (p = 1 \/ q[p - 1] = 38)}
        EndOf(p) == CHOOSE e \in p..n :
                        /\ \A k \in p..e : q[k] # 38
                        /\ e = n \/ q[e + 1] = 38
        EqualsOf(p) == LET eqs == {k \in p..EndOf(p) : q[k] = 61} IN
                       IF eqs = {} THEN EndOf(p) + 1
                       ELSE CHOOSE k \in eqs : \A m \in eqs : k <= m
        NameOf(p) == FormDecode(SubSeq(q, p, EqualsOf(p) - 1))
        ValueOf(p) == FormDecode(SubSeq(q, EqualsOf(p) + 1, EndOf(p)))
        named == {p \in starts : NameOf(p) = name}
    IN IF named = {} THEN Null
       ELSE Some(ValueOf(CHOOSE p \in named : \A k \in named : p <= k))

\* The length of the UTF-8 sequence a byte leads (0: it leads none).
SequenceLength(b) ==
    IF b < 128 THEN 1
    ELSE IF b >= 194 /\ b <= 223 THEN 2
    ELSE IF b >= 224 /\ b <= 239 THEN 3
    ELSE IF b >= 240 /\ b <= 244 THEN 4 ELSE 0

\* The escapes from position i on that make one UTF-8 sequence.
EscapedSequence(s, i) ==
    [m \in 1..SequenceLength(EscapedByte(s, i)) |->
        IF IsEscapeAt(s, i + 3 * (m - 1)) THEN EscapedByte(s, i + 3 * (m - 1)) ELSE 0]

\* The escape at i leads a well-formed UTF-8 sequence of escapes.
LeadsSequence(s, i) ==
    LET b == EscapedSequence(s, i) IN
    /\ IsEscapeAt(s, i)
    /\ Len(b) >= 1
    /\ \A m \in 2..Len(b) : IsCont(b[m])
    /\ Len(DecodeChar(b)) = 1

\* The escape at i is a continuation byte of a sequence led before it.
ContinuesSequence(s, i) ==
    \E m \in 1..3 :
        /\ LeadsSequence(s, i - 3 * m)
        /\ SequenceLength(EscapedByte(s, i - 3 * m)) > m

\* decodeURIComponent(s): URIError on a percent sign that is not followed
\* by two hexadecimal digits and on escapes that are not UTF-8.
decodeURIComponent(s) ==
    LET n == Len(s)
        bad == {i \in 1..n :
                   /\ s[i] = 37
                   /\ \/ ~IsEscapeAt(s, i)
                      \/ ~LeadsSequence(s, i) /\ ~ContinuesSequence(s, i)}
    IN IF bad # {} THEN Err("URIError")
       ELSE Ok(Flatten([i \in 1..n |->
                   IF IsEscapeAt(s, i)
                   THEN IF LeadsSequence(s, i)
                        THEN DecodeChar(EscapedSequence(s, i)) ELSE <<>>
                   ELSE IF InEscape(s, i) THEN <<>>
                   ELSE <<s[i]>>]))

UriScheme == <<97, 108, 103, 111, 99, 104, 97, 116, 45, 112, 115, 107,
               58, 47, 47, 118, 49, 63>>                  \* algochat-psk://v1?
UriAddr == <<97, 100, 100, 114>>                          \* addr
UriPsk == <<112, 115, 107>>                               \* psk
UriLabel == <<108, 97, 98, 101, 108>>                     \* label

createPSKExchangeURI(address, psk, label) ==
    LET encodedLabel == encodeURIComponent(label) IN
    IF length(psk) # 32 THEN Err("PSKExchangeError")
    ELSE IF ~encodedLabel.ok THEN encodedLabel
    ELSE Ok(UriScheme \o UriAddr \o <<61>> \o address
            \o <<38>> \o UriPsk \o <<61>> \o uint8ArrayToBase64url(psk)
            \o <<38>> \o UriLabel \o <<61>> \o encodedLabel.value)

parsePSKExchangeURI(uri) ==
    LET queryString == SubSeq(uri, Len(UriScheme) + 1, Len(uri))
        address == URLSearchParamsGet(queryString, UriAddr)
        pskBase64url == URLSearchParamsGet(queryString, UriPsk)
        psk == base64urlToUint8Array(pskBase64url.some)
        param == URLSearchParamsGet(queryString, UriLabel)
        label == decodeURIComponent(IF param = Null THEN <<>> ELSE param.some)
    IN IF Len(uri) < Len(UriScheme) \/ SubSeq(uri, 1, Len(UriScheme)) # UriScheme
       THEN Err("PSKExchangeError")
       ELSE IF address = Null \/ address.some = <<>> THEN Err("PSKExchangeError")
       ELSE IF pskBase64url = Null \/ pskBase64url.some = <<>>
       THEN Err("PSKExchangeError")
       ELSE IF ~psk.ok THEN psk
       ELSE IF length(psk.value) # 32 THEN Err("PSKExchangeError")
       ELSE IF ~label.ok THEN label
       ELSE Ok([address |-> address.some, psk |-> psk.value, label |-> label.value])

\* Inputs: addresses, 32-byte PSKs whose base64 has +, / and neither, a PSK
\* of another length, and labels.
UriAddresses ==
    {<<65, 68, 68, 82>>,                                  \* ADDR
     [i \in 1..58 |-> IF i % 2 = 0 THEN 65 ELSE 55]}      \* 7A7A...7A

UriPSKs ==
    {Lit(Repeat(66, 32)), Lit(Repeat(255, 32)), Lit(Repeat(251, 32)),
     Lit(Repeat(66, 31))}

UriLabels ==
    {<<>>,
     <<66, 111, 98, 32, 38, 32, 65, 108, 105, 99, 101, 32, 60, 51>>,  \* Bob & Alice <3
     <<97, 43, 98>>,                                      \* a+b
     <<97, 61, 98>>,                                      \* a=b
     <<49, 48, 48, 37>>,                                  \* 100%
     <<37, 52, 49>>,                                      \* %41
     <<37, 50, 53>>,                                      \* %25
     <<99, 97, 102, 233>>,                                \* cafe with e acute
     TxtEmoji,
     TxtLoneSurrogate}

UriInputs ==
    {[address |-> a, psk |-> p, label |-> l] :
         a \in UriAddresses, p \in UriPSKs, l \in UriLabels}

InitUriRun ==
    /\ uIn \in UriInputs
    /\ uUri = None /\ uOut = None /\ uPc = "start"
    /\ InitIdleCounter
    /\ InitCrypto
    /\ InitCodec
    /\ InitService
    /\ InitChat
    /\ InitWallet
    /\ InitPersist
    /\ InitKeys
    /\ InitSend
    /\ InitSessionKey
    /\ InitRatchet

CreateURI ==
    /\ uPc = "start"
    /\ uUri' = createPSKExchangeURI(uIn.address, uIn.psk, uIn.label)
    /\ uPc' = "created"
    /\ UNCHANGED <<uIn, uOut, exceptUri>>

ParseURI ==
    /\ uPc = "created"
    /\ uUri.ok
    /\ uOut' = parsePSKExchangeURI(uUri.value)
    /\ uPc' = "parsed"
    /\ UNCHANGED <<uIn, uUri, exceptUri>>

NextUri == CreateURI \/ ParseURI

SpecUri == InitUriRun /\ [][NextUri]_vars

(***************************************************************************)
(* Storage encryption (storage-crypto.ts), symbolic: AES-GCM under the     *)
(* key of the password, or under a session key of this page.  The session  *)
(* key is made when it is first asked for: a call that finds none waits    *)
(* for crypto.subtle.generateKey, assigns the key it gets to sessionKey     *)
(* and goes on with it, so calls that overlap the first one hold keys of    *)
(* their own and the assignment made last stays.  Key 0 is the key of an    *)
(* earlier page, which no call of this page holds.                         *)
(***************************************************************************)
encryptWithPassword(plaintext, password) ==
    [salt |-> "salt", iv |-> "iv",
     ciphertext |-> [aesgcm |-> plaintext, key |-> [pbkdf2 |-> password]]]

\* getOrCreateSessionKey(): the key the caller will hold, settled when it
\* is called.
getOrCreateSessionKey == IF sessionKey # 0 THEN sessionKey ELSE keysMade + 1

\* The step of a caller of getOrCreateSessionKey(): with no session key it
\* starts crypto.subtle.generateKey.
getOrCreateSessionKeyCalled ==
    /\ keysMade' = IF sessionKey = 0 THEN keysMade + 1 ELSE keysMade
    /\ generating' = IF sessionKey = 0 THEN generating \cup {keysMade + 1}
                     ELSE generating
    /\ sessionKey' = sessionKey

\* getOrCreateSessionKey() after `await crypto.subtle.generateKey(...)`:
\* the key is assigned, whatever sessionKey holds by now.
generateKeyLanded(k) ==
    /\ k \in generating
    /\ sessionKey' = k
    /\ generating' = generating \ {k}
    /\ UNCHANGED <<keysMade, exceptSessionKey>>

\* The caller that holds key k has it in hand.
KeyReady(k) == k \notin generating

\* encryptForSession(plaintext), by a caller holding key.
encryptForSession(plaintext, key) ==
    [iv |-> "iv", ciphertext |-> [aesgcm |-> plaintext, key |-> [session |-> key]]]

isEncryptedData(data) == DOMAIN data = {"salt", "iv", "ciphertext"}
isSessionEncryptedData(data) == DOMAIN data = {"iv", "ciphertext"}

\* The plaintext, or Null when the key does not open the data.
decryptWithPassword(encrypted, password) ==
    IF isEncryptedData(encrypted)
       /\ encrypted.ciphertext.key = [pbkdf2 |-> password]
    THEN encrypted.ciphertext.aesgcm ELSE Null

\* decryptFromSession(encrypted), by a caller holding key.
decryptFromSession(encrypted, key) ==
    IF "ciphertext" \in DOMAIN encrypted
       /\ encrypted.ciphertext.key = [session |-> key]
    THEN encrypted.ciphertext.aesgcm ELSE Null

encryptForStorage(plaintext, password, key) ==
    IF password # None THEN encryptWithPassword(plaintext, password)
    ELSE encryptForSession(plaintext, key)

\* decryptFromStorage(encrypted): with the password when the data has a salt
\* and a password is cached, with the session key when it has none, else
\* null.
decryptFromStorage(encrypted, password, key) ==
    IF isEncryptedData(encrypted) /\ password # None
    THEN decryptWithPassword(encrypted, password)
    ELSE IF isSessionEncryptedData(encrypted)
    THEN decryptFromSession(encrypted, key)
    ELSE Null

(***************************************************************************)
(* WalletService (wallet.service.ts).  An async method runs up to its next *)
(* await in one step; a flight is a call that waits at an await, with the  *)
(* values it holds.  What an earlier page of the tab stored is under a key  *)
(* that is lost.                                                           *)
(***************************************************************************)
MaxCalls == 2   \* async calls (connect, unlockWithPassword) made in a run

\* Strings are written as JSON strings are: [str |-> characters].
ValidMnemonic == [str |-> "mnemonic1"]
Mnemonics == {ValidMnemonic, [str |-> "not a mnemonic"]}
Passwords == {[str |-> "password1"], [str |-> "password2"]}

\* createChatAccountFromMnemonic(mnemonic): throws on an invalid mnemonic.
createChatAccountFromMnemonic(mnemonic) ==
    IF mnemonic = ValidMnemonic THEN Ok([mnemonic |-> mnemonic]) ELSE Err("Error")

\* The flights without the one at position i.
Landed(i) == SubSeq(flights, 1, i - 1) \o SubSeq(flights, i + 1, Len(flights))

\* The flights with the one at position i moved on.
Moved(i, f) == [flights EXCEPT ![i] = f]

\* connect(mnemonic, remember, password), up to the first await.
connect(mnemonic, remember, password) ==
    LET chatAccount == createChatAccountFromMnemonic(mnemonic) IN
    /\ walletCalls < MaxCalls
    /\ walletCalls' = walletCalls + 1
    /\ disconnected' = FALSE
    /\ account' = IF chatAccount.ok THEN chatAccount.value ELSE account
    /\ flights' =
           IF ~chatAccount.ok THEN flights
           ELSE IF remember /\ password # None
           THEN Append(flights, [op |-> "connect", pc |-> "persist",
                                 mnemonic |-> mnemonic, password |-> password])
           ELSE IF ~remember
           THEN Append(flights, [op |-> "connect", pc |-> "session",
                                 mnemonic |-> mnemonic,
                                 key |-> getOrCreateSessionKey])
           ELSE flights
    /\ IF chatAccount.ok /\ ~(remember /\ password # None) /\ ~remember
       THEN getOrCreateSessionKeyCalled
       ELSE UNCHANGED sessionKeyVars
    /\ walletOut' = [op |-> "connect", returned |-> flights' = flights,
                     result |-> chatAccount.ok]
    /\ UNCHANGED <<sessionItem, persistItem, cachedPassword, exceptWalletSession>>

\* connect after `await encryptWithPassword(mnemonic, password)`.
connectPersist(i) ==
    /\ flights[i].op = "connect" /\ flights[i].pc = "persist"
    /\ persistItem' = encryptWithPassword(flights[i].mnemonic, flights[i].password)
    /\ sessionItem' = None
    /\ cachedPassword' = flights[i].password
    /\ flights' = Landed(i)
    /\ walletOut' = [op |-> "connect", returned |-> TRUE, result |-> TRUE]
    /\ UNCHANGED <<account, walletCalls, disconnected, exceptWallet>>

\* connect after `await encryptForSession(mnemonic)`.
connectSession(i) ==
    /\ flights[i].op = "connect" /\ flights[i].pc = "session"
    /\ KeyReady(flights[i].key)
    /\ sessionItem' = encryptForSession(flights[i].mnemonic, flights[i].key)
    /\ persistItem' = None
    /\ cachedPassword' = None
    /\ flights' = Landed(i)
    /\ walletOut' = [op |-> "connect", returned |-> TRUE, result |-> TRUE]
    /\ UNCHANGED <<account, walletCalls, disconnected, exceptWallet>>

\* unlockWithPassword(password), up to the first await.
unlockWithPassword(password) ==
    /\ walletCalls < MaxCalls
    /\ walletCalls' = walletCalls + 1
    /\ disconnected' = FALSE
    /\ flights' = IF persistItem = None THEN flights
                  ELSE Append(flights, [op |-> "unlockWithPassword", pc |-> "decrypt",
                                        stored |-> persistItem, password |-> password])
    /\ walletOut' = [op |-> "unlockWithPassword", returned |-> persistItem = None,
                     result |-> FALSE]
    /\ UNCHANGED <<account, sessionItem, persistItem, cachedPassword, exceptWallet>>

\* unlockWithPassword after `await decryptWithPassword(stored, password)`.
unlockDecrypted(i) ==
    LET f == flights[i]
        mnemonic == decryptWithPassword(f.stored, f.password)
        chatAccount == createChatAccountFromMnemonic(mnemonic)
        goesOn == mnemonic # Null /\ chatAccount.ok
    IN /\ f.op = "unlockWithPassword" /\ f.pc = "decrypt"
       /\ account' = IF goesOn THEN chatAccount.value ELSE account
       /\ flights' = IF goesOn
                     THEN Moved(i, [op |-> "unlockWithPassword", pc |-> "session",
                                    mnemonic |-> mnemonic, password |-> f.password,
                                    key |-> getOrCreateSessionKey])
                     ELSE Landed(i)
       /\ IF goesOn THEN getOrCreateSessionKeyCalled ELSE UNCHANGED sessionKeyVars
       /\ walletOut' = [op |-> "unlockWithPassword", returned |-> ~goesOn,
                        result |-> FALSE]
       /\ UNCHANGED <<sessionItem, persistItem, cachedPassword, walletCalls,
                      disconnected, exceptWalletSession>>

\* unlockWithPassword after `await encryptForSession(mnemonic)`.
unlockSession(i) ==
    /\ flights[i].op = "unlockWithPassword" /\ flights[i].pc = "session"
    /\ KeyReady(flights[i].key)
    /\ sessionItem' = encryptForSession(flights[i].mnemonic, flights[i].key)
    /\ cachedPassword' = flights[i].password
    /\ flights' = Landed(i)
    /\ walletOut' = [op |-> "unlockWithPassword", returned |-> TRUE, result |-> TRUE]
    /\ UNCHANGED <<account, persistItem, walletCalls, disconnected, exceptWallet>>

\* restoreSessionStorage (called by the constructor) after
\* `await decryptFromSession(encrypted)`.
restoreDecrypted(i) ==
    LET f == flights[i]
        mnemonic == decryptFromSession(f.encrypted, f.key)
        chatAccount == createChatAccountFromMnemonic(mnemonic)
        restores == mnemonic # Null /\ chatAccount.ok
    IN /\ f.op = "restoreSessionStorage"
       /\ KeyReady(f.key)
       /\ account' = IF restores THEN chatAccount.value ELSE account
       /\ sessionItem' = IF restores THEN sessionItem ELSE None
       /\ flights' = Landed(i)
       /\ walletOut' = [op |-> "restoreSessionStorage", returned |-> TRUE,
                        result |-> restores]
       /\ UNCHANGED <<persistItem, cachedPassword, walletCalls, disconnected,
                      exceptWallet>>

clearStoredSession ==
    /\ persistItem # None
    /\ persistItem' = None
    /\ walletOut' = [op |-> "clearStoredSession", returned |-> TRUE, result |-> TRUE]
    /\ UNCHANGED <<account, sessionItem, cachedPassword, flights, walletCalls,
                   disconnected, exceptWallet>>

disconnect ==
    /\ account' = None
    /\ sessionItem' = None
    /\ persistItem' = None
    /\ cachedPassword' = None
    /\ disconnected' = TRUE
    /\ walletOut' = [op |-> "disconnect", returned |-> TRUE, result |-> TRUE]
    /\ UNCHANGED <<flights, walletCalls, exceptWallet>>

\* What the page finds when it loads: nothing, or the items of an earlier
\* page (the session item under the session key of that page).
StaleSessionItem == encryptForSession(ValidMnemonic, 0)

\* The constructor has called restoreSessionStorage: with a session item it
\* waits at decryptFromSession, for the first session key of the page.
InitWalletRun ==
    /\ sessionItem \in {None, StaleSessionItem}
    /\ persistItem \in {None, encryptWithPassword(ValidMnemonic, [str |-> "password1"])}
    /\ flights = IF sessionItem = None THEN <<>>
                 ELSE <<[op |-> "restoreSessionStorage", pc |-> "decrypt",
                         encrypted |-> sessionItem, key |-> 1]>>
    /\ sessionKey = 0
    /\ generating = IF sessionItem = None THEN {} ELSE {1}
    /\ keysMade = IF sessionItem = None THEN 0 ELSE 1
    /\ account = None
    /\ cachedPassword = None
    /\ walletOut = None
    /\ walletCalls = 0
    /\ disconnected = FALSE
    /\ InitIdleCounter
    /\ InitCrypto
    /\ InitCodec
    /\ InitService
    /\ InitChat
    /\ InitUri
    /\ InitRatchet
    /\ InitPersist
    /\ InitKeys
    /\ InitSend

NextWallet ==
    \/ \E mnemonic \in Mnemonics, remember \in BOOLEAN,
          password \in Passwords \cup {None} :
           connect(mnemonic, remember, password)
    \/ \E password \in Passwords : unlockWithPassword(password)
    \/ \E i \in 1..Len(flights) : connectPersist(i)
    \/ \E i \in 1..Len(flights) : connectSession(i)
    \/ \E i \in 1..Len(flights) : unlockDecrypted(i)
    \/ \E i \in 1..Len(flights) : unlockSession(i)
    \/ \E i \in 1..Len(flights) : restoreDecrypted(i)
    \/ \E k \in generating : generateKeyLanded(k)
    \/ clearStoredSession
    \/ disconnect

SpecWallet == InitWalletRun /\ [][NextWallet]_vars

(***************************************************************************)
(* PSK storage service (core/services/psk.service.ts) and the message      *)
(* dispatcher of ChatService (chat.service.ts), for the local user alice.  *)
(* The counter state of an entry is the PSKState of the protocol library:  *)
(* sendCounter, peerLastCounter, seenCounters.                             *)
(***************************************************************************)
MaxSaves == 1   \* save() calls whose doSave has not ended
MaxLoads == 2   \* initialize() calls that have not returned

uint8ArrayToBase64(bytes) == btoa(ArrayFrom(bytes))
base64ToUint8Array(base64) == Lit(atob(base64).value)

createLibraryPSKState ==
    [sendCounter |-> Num(0), peerLastCounter |-> Num(0), seenCounters |-> {}]

\* serializeState / deserializeState: the set becomes an array and back.
serializeState(st) ==
    [sendCounter |-> st.sendCounter, peerLastCounter |-> st.peerLastCounter,
     seenCounters |-> [arr |-> st.seenCounters]]

deserializeState(serialized) ==
    [sendCounter |-> serialized.sendCounter,
     peerLastCounter |-> serialized.peerLastCounter,
     seenCounters |-> serialized.seenCounters.arr]

\* The window of the library state, read by the rules of psk-state.ts.
AsWindow(st) ==
    [receiveCounter |-> st.peerLastCounter, receivedCounters |-> st.seenCounters]

validateCounter(st, counter) == validateReceiveCounter(AsWindow(st), counter)

recordReceive(st, counter) ==
    LET after == recordReceivedCounter(AsWindow(st), counter) IN
    [sendCounter |-> st.sendCounter,
     peerLastCounter |-> after.receiveCounter,
     seenCounters |-> after.receivedCounters]

\* decryptPSKMessage of the library: the PSK of the counter is passed in.
decryptPSKMessage(envelope, myPrivateKey, myPublicKey, currentPSK) ==
    LET weAreSender == uint8ArrayEquals(myPublicKey, envelope.senderPublicKey)
        plaintext == IF weAreSender
                     THEN pskDecryptAsSender(envelope, myPrivateKey, myPublicKey, currentPSK)
                     ELSE pskDecryptAsRecipient(envelope, myPrivateKey, myPublicKey, currentPSK)
    IN IF ~plaintext.ok THEN plaintext
       ELSE Ok(parsePSKPayload(plaintext.value, envelope.counter))

getPSK(es, address) ==
    IF es[address] = None THEN Null ELSE Some(base64ToUint8Array(es[address].psk))

getState(es, address) ==
    IF es[address] = None THEN createLibraryPSKState
    ELSE deserializeState(es[address].state)

\* storePSK(address, psk)
storePSK(address, psk) ==
    /\ savePending < MaxSaves
    /\ entries' = [entries EXCEPT ![address] =
                       [psk |-> uint8ArrayToBase64(psk),
                        state |-> serializeState(createLibraryPSKState)]]
    /\ savePending' = savePending + 1
    /\ chatOut' = [op |-> "storePSK", address |-> address]
    /\ UNCHANGED <<saving, pskStore, pskMessageIds, exceptChat>>

\* removePSK(address)
removePSK(address) ==
    /\ savePending < MaxSaves
    /\ entries' = [entries EXCEPT ![address] = None]
    /\ savePending' = savePending + 1
    /\ chatOut' = [op |-> "removePSK", address |-> address]
    /\ UNCHANGED <<saving, pskStore, pskMessageIds, exceptChat>>

\* The next doSave of the savePromise chain, up to its await: it starts when
\* the doSave before it has ended, and takes the entries of that moment.
doSave ==
    /\ savePending > 0
    /\ saving = None
    /\ saving' = encryptForStorage(JSONStringify(entries), cachedPassword,
                                   getOrCreateSessionKey)
    /\ IF cachedPassword = None THEN getOrCreateSessionKeyCalled
       ELSE UNCHANGED sessionKeyVars
    /\ chatOut' = [op |-> "doSave"]
    /\ UNCHANGED <<entries, savePending, pskStore, pskMessageIds, exceptChatSession>>

\* doSave after its await: localStorage.setItem.
doSaveLanded ==
    /\ saving # None
    /\ isSessionEncryptedData(saving) => KeyReady(saving.ciphertext.key.session)
    /\ pskStore' = saving
    /\ saving' = None
    /\ savePending' = savePending - 1
    /\ chatOut' = [op |-> "doSaveLanded"]
    /\ UNCHANGED <<entries, pskMessageIds, exceptChat>>

\* initialize(), with load() up to its await or, when it has none, to its
\* end: decryptFromStorage is given the item read here.
initialize ==
    LET stored == pskStore
        encrypted == /\ stored # None
                     /\ (isEncryptedData(stored) \/ isSessionEncryptedData(stored))
        migrates == stored # None /\ ~encrypted
        data == JSONParseText(stored)
        asksKey == /\ encrypted
                   /\ ~(isEncryptedData(stored) /\ cachedPassword # None)
                   /\ isSessionEncryptedData(stored)
    IN /\ ~initialized
       /\ Len(loads) < MaxLoads
       /\ migrates /\ data.ok => savePending < MaxSaves
       /\ entries' = IF stored = None THEN [a \in Addresses |-> None]
                     ELSE IF ~migrates THEN entries
                     ELSE IF data.ok THEN data.value
                     ELSE [a \in Addresses |-> None]
       /\ savePending' = IF migrates /\ data.ok THEN savePending + 1 ELSE savePending
       /\ loads' = Append(loads,
                          IF encrypted
                          THEN [pc |-> "decrypt", stored |-> stored,
                                password |-> cachedPassword,
                                key |-> IF asksKey THEN getOrCreateSessionKey ELSE 0]
                          ELSE [pc |-> "return"])
       /\ IF asksKey THEN getOrCreateSessionKeyCalled ELSE UNCHANGED sessionKeyVars
       /\ chatOut' = [op |-> "initialize"]
       /\ UNCHANGED <<saving, pskStore, pskMessageIds, initialized, exceptChatLoad>>

\* load() after `await decryptFromStorage(stored)`, to its end.
loadDecrypted(i) ==
    LET f == loads[i]
        decrypted == decryptFromStorage(f.stored, f.password, f.key)
        data == JSONParseText(decrypted)
    IN /\ f.pc = "decrypt"
       /\ KeyReady(f.key)
       /\ entries' = IF decrypted # Null /\ data.ok THEN data.value
                     ELSE [a \in Addresses |-> None]
       /\ loads' = [loads EXCEPT ![i] = [pc |-> "return"]]
       /\ chatOut' = [op |-> "load"]
       /\ UNCHANGED <<savePending, saving, pskStore, pskMessageIds, initialized,
                      sessionKeyVars, exceptChatLoad>>

\* initialize() after `await this.load()`.
initializeLanded(i) ==
    /\ loads[i].pc = "return"
    /\ initialized' = TRUE
    /\ loads' = SubSeq(loads, 1, i - 1) \o SubSeq(loads, i + 1, Len(loads))
    /\ chatOut' = [op |-> "initializeLanded"]
    /\ UNCHANGED <<entries, savePending, saving, pskStore, pskMessageIds,
                   sessionKeyVars, exceptChatLoad>>

\* clear()
clear ==
    /\ entries' = [a \in Addresses |-> None]
    /\ pskStore' = None
    /\ initialized' = FALSE
    /\ chatOut' = [op |-> "clear"]
    /\ UNCHANGED <<savePending, saving, pskMessageIds, loads, sessionKeyVars,
                   exceptChatLoad>>

MessageOf(txId, sender, receiver, direction, decrypted) ==
    [id |-> txId, sender |-> sender, recipient |-> receiver,
     content |-> decrypted.text, direction |-> direction]

\* ChatService.tryParseMessage(noteBytes, account, sender, receiver,
\* direction, tx).  attempted: the decrypt functions that were called.
tryParseMessage(noteBytes, sender, receiver, direction, txId) ==
    LET me == KeysOf("alice")
        envelope == decodeEnvelope(noteBytes)
        decrypted == decryptMessage(envelope.value, me.privateKey, me.publicKey)
        triesBase == isChatMessage(noteBytes) /\ envelope.ok
        baseReturns == triesBase /\ decrypted.ok
        otherParty == IF direction = "sent" THEN receiver ELSE sender
        initialPSK == getPSK(entries, otherParty)
        pskEnvelope == decodePSKEnvelope(noteBytes)
        currentPSK == derivePSKAtCounter(initialPSK.some, pskEnvelope.value.counter)
        pskDecrypted == decryptPSKMessage(pskEnvelope.value, me.privateKey,
                                          me.publicKey, currentPSK)
        triesPSK == /\ ~baseReturns
                    /\ isPSKMessage(noteBytes)
                    /\ initialPSK # Null
                    /\ pskEnvelope.ok
        pskReturns == triesPSK /\ pskDecrypted.ok /\ pskDecrypted.value # Null
        st == getState(entries, otherParty)
        records == /\ pskReturns
                   /\ direction = "received"
                   /\ validateCounter(st, pskEnvelope.value.counter)
                   /\ entries[otherParty] # None
        newState == recordReceive(st, pskEnvelope.value.counter)
        result == IF baseReturns
                  THEN IF decrypted.value = Null THEN Null
                       ELSE MessageOf(txId, sender, receiver, direction, decrypted.value)
                  ELSE IF pskReturns
                  THEN MessageOf(txId, sender, receiver, direction, pskDecrypted.value)
                  ELSE Null
    IN /\ records => savePending < MaxSaves
       /\ entries' = IF records
                     THEN [entries EXCEPT ![otherParty].state = serializeState(newState)]
                     ELSE entries
       /\ savePending' = IF records THEN savePending + 1 ELSE savePending
       /\ pskMessageIds' = IF pskReturns THEN pskMessageIds \cup {txId}
                           ELSE pskMessageIds
       /\ chatOut' = [op |-> "tryParseMessage", note |-> noteBytes,
                      otherParty |-> otherParty, direction |-> direction,
                      attempted |-> (IF triesBase THEN {"decryptMessage"} ELSE {})
                                    \cup (IF triesPSK THEN {"decryptPSKMessage"} ELSE {}),
                      result |-> result]
       /\ UNCHANGED <<saving, pskStore, exceptChat>>

TxIds == {"tx1"}

\* A note of another application, and a PSK header cut short.
OtherNote == Lit(<<7, 7, 7>>)
ShortPSKNote == Lit(<<1, 2, 0, 0>>)

ChatNotes ==
    PeerNotes \cup {OwnNote, WrongPSKNote, BaseNote, OtherNote, ShortPSKNote}

ChatPSKs == {InitialPSK}

\* The transactions read from the indexer: bob's transfers to alice with each
\* note but alice's own, alice's transfer to bob with her own note, and a
\* transfer of carol to alice.
Transactions ==
    {<<n, <<"bob", "alice">>>> : n \in ChatNotes \ {OwnNote}}
    \cup {<<OwnNote, <<"alice", "bob">>>>,
          <<NoteOf("bob", "alice", InitialPSK, Num(0), TxtHi), <<"carol", "alice">>>>}

NextChat ==
    \/ \E address \in Addresses, psk \in ChatPSKs : storePSK(address, psk)
    \/ \E address \in Addresses : removePSK(address)
    \/ doSave
    \/ doSaveLanded
    \/ clear
    \/ \E k \in generating : generateKeyLanded(k)
    \/ \E tx \in Transactions, txId \in TxIds :
           tryParseMessage(tx[1], tx[2][1], tx[2][2],
                           IF tx[2][1] = "alice" THEN "sent" ELSE "received", txId)

InitChatRun ==
    /\ InitChat
    /\ InitIdleCounter
    /\ InitCrypto
    /\ InitCodec
    /\ InitService
    /\ InitWallet
    /\ InitPersist
    /\ InitKeys
    /\ InitSend
    /\ InitSessionKey
    /\ InitUri
    /\ InitRatchet

SpecChat == InitChatRun /\ [][NextChat]_vars

(***************************************************************************)
(* The PSK storage service when the page loads: what localStorage holds is *)
(* what an earlier page left there.                                        *)
(***************************************************************************)
EarlierEntries ==
    [a \in Addresses |->
         IF a = "bob"
         THEN [psk |-> uint8ArrayToBase64(InitialPSK),
               state |-> serializeState(createLibraryPSKState)]
         ELSE None]

\* No item; the entries in plaintext (before the items were encrypted),
\* under the session key of the earlier page, under a password; a text
\* that is not JSON.
StoredItems ==
    {None,
     JSONStringify(EarlierEntries),
     encryptForSession(JSONStringify(EarlierEntries), 0),
     encryptWithPassword(JSONStringify(EarlierEntries), [str |-> "password1"]),
     [str |-> "not json"]}

NextLoad ==
    \/ initialize
    \/ \E i \in 1..Len(loads) : loadDecrypted(i)
    \/ \E i \in 1..Len(loads) : initializeLanded(i)
    \/ clear
    \/ \E address \in Addresses, psk \in ChatPSKs : storePSK(address, psk)
    \/ \E address \in Addresses : removePSK(address)
    \/ doSave
    \/ doSaveLanded
    \/ \E k \in generating : generateKeyLanded(k)

InitLoadRun ==
    /\ entries = [a \in Addresses |-> None]
    /\ savePending = 0
    /\ saving = None
    /\ pskStore \in StoredItems
    /\ pskMessageIds = {}
    /\ chatOut = None
    /\ initialized = FALSE
    /\ loads = <<>>
    /\ InitIdleCounter
    /\ InitCrypto
    /\ InitCodec
    /\ InitService
    /\ InitWallet
    /\ InitPersist
    /\ InitKeys
    /\ InitSend
    /\ InitSessionKey
    /\ InitUri
    /\ InitRatchet

SpecLoad == InitLoadRun /\ [][NextLoad]_vars

(***************************************************************************)
(* PSKService with encrypted storage (psk.service.ts, the class whose      *)
(* persistState is async).  persistState serializes the state and starts   *)
(* encryptForStorage when it is called, and writes the item when the       *)
(* encryption has completed; nothing orders the completions of different   *)
(* calls.  No caller awaits persistState.                                  *)
(***************************************************************************)
MaxPersists == 2   \* persistState calls that may wait at encryptForStorage

\* persistState(address, state) up to its await.
persistStateBegin(ps, address, st) ==
    Append(ps, [address |-> address,
                encrypted |-> encryptForStorage(serializePSKState(st), cachedPassword,
                                                getOrCreateSessionKey)])

\* The step of a caller of persistState: encryptForStorage asks for the
\* session key unless a password is cached.
persistStateCalled(begins) ==
    IF begins /\ cachedPassword = None THEN getOrCreateSessionKeyCalled
    ELSE UNCHANGED sessionKeyVars

\* persistState after its await: localStorage.setItem.
persistStateLanded(i) ==
    /\ isSessionEncryptedData(persists[i].encrypted)
           => KeyReady(persists[i].encrypted.ciphertext.key.session)
    /\ storage' = [storage EXCEPT ![persists[i].address] = persists[i].encrypted]
    /\ persists' = SubSeq(persists, 1, i - 1) \o SubSeq(persists, i + 1, Len(persists))
    /\ svcOut' = [op |-> "persistState", address |-> persists[i].address]
    /\ UNCHANGED <<sessions, sessionLoads, exceptPersist>>

initSessionAsync(address, initialPSK) ==
    LET st == createPSKState(initialPSK) IN
    /\ Len(persists) < MaxPersists
    /\ sessions' = IF st.ok THEN [sessions EXCEPT ![address] = st.value] ELSE sessions
    /\ persists' = IF st.ok THEN persistStateBegin(persists, address, st.value)
                   ELSE persists
    /\ persistStateCalled(st.ok)
    /\ svcOut' = [op |-> "initSession", address |-> address,
                  initialPSK |-> initialPSK,
                  result |-> IF st.ok THEN Ok(Null) ELSE st]
    /\ UNCHANGED <<storage, sessionLoads, exceptPersistSession>>

removeSessionAsync(address) ==
    /\ sessions' = [sessions EXCEPT ![address] = None]
    /\ storage' = removePersistedState(storage, address)
    /\ svcOut' = [op |-> "removeSession", address |-> address, result |-> Ok(Null)]
    /\ UNCHANGED <<persists, sessionLoads, exceptPersist>>

\* clearAll(): the stored state of every session is removed.
clearAll ==
    /\ storage' = [a \in Addresses |->
                       IF sessions[a] # None THEN None ELSE storage[a]]
    /\ sessions' = [a \in Addresses |-> None]
    /\ svcOut' = [op |-> "clearAll", result |-> Ok(Null)]
    /\ UNCHANGED <<persists, sessionLoads, exceptPersist>>

encryptAsync(address, plaintext, senderPublicKey, recipientPublicKey, rnd) ==
    LET st == sessions[address]
        adv == advanceSendCounter(st)
        envelope == pskEncryptMessage(plaintext, senderPublicKey, recipientPublicKey,
                                      st.initialPSK, adv.value.counter, rnd)
        out == IF st = None THEN Err("NoSession")
               ELSE IF ~adv.ok THEN adv
               ELSE IF ~envelope.ok THEN envelope
               ELSE Ok(encodePSKEnvelope(envelope.value))
    IN /\ Len(persists) < MaxPersists
       /\ st # None => NumLess(st.sendCounter, Num(MaxSessionSend))
       /\ sessions' = IF st # None /\ adv.ok
                      THEN [sessions EXCEPT ![address] = adv.value.state]
                      ELSE sessions
       /\ persists' = IF out.ok
                      THEN persistStateBegin(persists, address, adv.value.state)
                      ELSE persists
       /\ persistStateCalled(out.ok)
       /\ svcOut' = [op |-> "encrypt", address |-> address, result |-> out]
       /\ UNCHANGED <<storage, sessionLoads, exceptPersistSession>>

decryptAsync(address, noteBytes, myPrivateKey, myPublicKey) ==
    LET st == sessions[address]
        envelope == decodePSKEnvelope(noteBytes)
        decrypted == pskDecryptMessage(envelope.value, myPrivateKey, myPublicKey,
                                       st.initialPSK)
        out == IF st = None THEN Ok(Null)
               ELSE IF ~isPSKMessage(noteBytes) THEN Ok(Null)
               ELSE IF ~envelope.ok THEN envelope
               ELSE IF ~validateReceiveCounter(st, envelope.value.counter) THEN Ok(Null)
               ELSE decrypted
        records == out.ok /\ out.value # Null
        after == recordReceivedCounter(st, envelope.value.counter)
    IN /\ Len(persists) < MaxPersists
       /\ sessions' = IF records THEN [sessions EXCEPT ![address] = after] ELSE sessions
       /\ persists' = IF records THEN persistStateBegin(persists, address, after)
                      ELSE persists
       /\ persistStateCalled(records)
       /\ svcOut' = [op |-> "decrypt", address |-> address, note |-> noteBytes,
                     result |-> out]
       /\ UNCHANGED <<storage, sessionLoads, exceptPersistSession>>

MaxSessionLoads == 1   \* loadPersistedSessions calls that have not returned

\* The orders in which localStorage.key(i) may give the keys of the items.
KeyOrders(st) ==
    LET held == {a \in Addresses : st[a] # None} IN
    {keys \in [1..Cardinality(held) -> held] :
         \A a \in held : \E j \in DOMAIN keys : keys[j] = a}

\* The loop of loadPersistedSessions over the keys left, up to its next
\* await or to its end: an item that is gone and a plaintext item that does
\* not deserialize are passed over; an encrypted item waits at
\* `await decryptFromStorage(stored)`; a plaintext item becomes the session
\* and waits at `await this.persistState(address, state)`.
LoadGoOn(keys, ss, st) ==
    LET IsEncrypted(item) == isEncryptedData(item) \/ isSessionEncryptedData(item)
        waits == {j \in 1..Len(keys) :
                      /\ st[keys[j]] # None
                      /\ (IsEncrypted(st[keys[j]])
                             \/ deserializePSKState(st[keys[j]]).ok)}
        j == CHOOSE m \in waits : \A n \in waits : m <= n
        address == keys[j]
        stored == st[address]
        rest == SubSeq(keys, j + 1, Len(keys))
        asks == /\ ~(isEncryptedData(stored) /\ cachedPassword # None)
                /\ isSessionEncryptedData(stored)
        loaded == deserializePSKState(stored).value
    IN IF waits = {} THEN [done |-> TRUE, sessions |-> ss, asksKey |-> FALSE]
       ELSE IF IsEncrypted(stored)
       THEN [done |-> FALSE, sessions |-> ss, asksKey |-> asks,
             flight |-> [pc |-> "decrypt", address |-> address, stored |-> stored,
                         password |-> cachedPassword,
                         key |-> IF asks THEN getOrCreateSessionKey ELSE 0,
                         keys |-> rest]]
       ELSE [done |-> FALSE, sessions |-> [ss EXCEPT ![address] = loaded],
             asksKey |-> cachedPassword = None,
             flight |-> [pc |-> "persist", address |-> address,
                         encrypted |-> encryptForStorage(serializePSKState(loaded),
                                                         cachedPassword,
                                                         getOrCreateSessionKey),
                         keys |-> rest]]

\* What a step of loadPersistedSessions does once the loop has gone on.
LoadWentOn(go, flightsLeft) ==
    /\ sessions' = go.sessions
    /\ sessionLoads' = IF go.done THEN flightsLeft
                       ELSE Append(flightsLeft, go.flight)
    /\ IF go.asksKey THEN getOrCreateSessionKeyCalled ELSE UNCHANGED sessionKeyVars
    /\ svcOut' = [op |-> "loadPersistedSessions", returned |-> go.done]

OtherLoads(i) ==
    SubSeq(sessionLoads, 1, i - 1) \o SubSeq(sessionLoads, i + 1, Len(sessionLoads))

\* loadPersistedSessions() (async), up to its first await.
loadPersistedSessionsAsync(keys) ==
    /\ Len(sessionLoads) < MaxSessionLoads
    /\ LoadWentOn(LoadGoOn(keys, sessions, storage), sessionLoads)
    /\ UNCHANGED <<storage, persists, exceptPersistSession>>

\* loadPersistedSessions after `await decryptFromStorage(stored)`.
loadSessionDecrypted(i) ==
    LET f == sessionLoads[i]
        json == decryptFromStorage(f.stored, f.password, f.key)
        st == deserializePSKState(json)
        loaded == IF json # Null /\ st.ok
                  THEN [sessions EXCEPT ![f.address] = st.value]
                  ELSE sessions
    IN /\ f.pc = "decrypt"
       /\ KeyReady(f.key)
       /\ LoadWentOn(LoadGoOn(f.keys, loaded, storage), OtherLoads(i))
       /\ UNCHANGED <<storage, persists, exceptPersistSession>>

\* The persistState that loadPersistedSessions waits for, after its await:
\* localStorage.setItem.
loadPersistLanded(i) ==
    LET f == sessionLoads[i] IN
    /\ f.pc = "persist"
    /\ isSessionEncryptedData(f.encrypted)
           => KeyReady(f.encrypted.ciphertext.key.session)
    /\ storage' = [storage EXCEPT ![f.address] = f.encrypted]
    /\ sessionLoads' = [sessionLoads EXCEPT ![i] = [pc |-> "resume", keys |-> f.keys]]
    /\ svcOut' = [op |-> "persistState", address |-> f.address]
    /\ UNCHANGED <<sessions, persists, exceptPersist>>

\* loadPersistedSessions after `await this.persistState(address, state)`.
loadResumed(i) ==
    LET f == sessionLoads[i] IN
    /\ f.pc = "resume"
    /\ LoadWentOn(LoadGoOn(f.keys, sessions, storage), OtherLoads(i))
    /\ UNCHANGED <<storage, persists, exceptPersistSession>>

\* Sessions are opened and removed with both parties; messages go to and
\* come from bob.
Correspondents == {"bob"}

\* What localStorage holds when the page loads: nothing; the states of bob
\* and carol in plaintext (before the items were encrypted); the state of
\* bob under the session key of an earlier page.
EarlierStorage ==
    {[a \in Addresses |-> None],
     [a \in Addresses |-> serializePSKState(StoredState)],
     [a \in Addresses |->
          IF a = "bob" THEN encryptForSession(serializePSKState(StoredState), 0)
          ELSE None]}

NextPersist ==
    \/ \E address \in Addresses : initSessionAsync(address, InitialPSK)
    \/ \E address \in Addresses : removeSessionAsync(address)
    \/ clearAll
    \/ \E address \in Correspondents, rnd \in Draws :
           encryptAsync(address, TxtHi, KeysOf("alice").publicKey,
                        KeysOf(address).publicKey, rnd)
    \/ \E address \in Correspondents :
           decryptAsync(address, NoteOf("bob", "alice", InitialPSK, Num(0), TxtHi),
                        KeysOf("alice").privateKey, KeysOf("alice").publicKey)
    \/ \E i \in 1..Len(persists) : persistStateLanded(i)
    \/ \E k \in generating : generateKeyLanded(k)

InitPersistRun ==
    /\ InitService
    /\ InitPersist
    /\ InitIdleCounter
    /\ InitCrypto
    /\ InitCodec
    /\ InitChat
    /\ InitWallet
    /\ InitUri
    /\ InitRatchet
    /\ InitKeys
    /\ InitSend
    /\ InitSessionKey

SpecPersist == InitPersistRun /\ [][NextPersist]_vars

(***************************************************************************)
(* The same PSKService when the page loads: loadPersistedSessions reads    *)
(* what an earlier page left in localStorage, while sessions are opened    *)
(* and removed.                                                            *)
(***************************************************************************)
NextRestore ==
    \/ \E keys \in KeyOrders(storage) : loadPersistedSessionsAsync(keys)
    \/ \E i \in 1..Len(sessionLoads) : loadSessionDecrypted(i)
    \/ \E i \in 1..Len(sessionLoads) : loadPersistLanded(i)
    \/ \E i \in 1..Len(sessionLoads) : loadResumed(i)
    \/ \E address \in Addresses : initSessionAsync(address, InitialPSK)
    \/ \E address \in Addresses : removeSessionAsync(address)
    \/ clearAll
    \/ \E i \in 1..Len(persists) : persistStateLanded(i)
    \/ \E k \in generating : generateKeyLanded(k)

InitRestoreRun ==
    /\ sessions = [a \in Addresses |-> None]
    /\ storage \in EarlierStorage
    /\ svcOut = None
    /\ InitPersist
    /\ InitIdleCounter
    /\ InitCrypto
    /\ InitCodec
    /\ InitChat
    /\ InitWallet
    /\ InitUri
    /\ InitRatchet
    /\ InitKeys
    /\ InitSend
    /\ InitSessionKey

SpecRestore == InitRestoreRun /\ [][NextRestore]_vars

(***************************************************************************)
(* Key material (encryption.ts, psk-encryption.ts).  Each function is      *)
(* followed through to its return, or to the statement that throws, and    *)
(* the Uint8Arrays it has made for secrets are listed with the bytes they  *)
(* hold at that moment.  A buffer holds what it was given unless a         *)
(* statement of the function writes to it.                                 *)
(***************************************************************************)
Buffer(name, bytes) == [name |-> name, bytes |-> bytes]

\* encryptMessage: it throws before any secret exists, at a key agreement,
\* or runs to its end.
encryptMessageBuffers(plaintext, senderPrivateKey, senderPublicKey, recipientPublicKey, rnd) ==
    LET messageBytes == TextEncoderEncode(plaintext) IN
    IF length(messageBytes) > PROTOCOL.MAX_PAYLOAD_SIZE THEN {}
    ELSE
    LET ephemeral == generateEphemeralKeyPair(rnd)
        sharedSecret == x25519ECDH(ephemeral.privateKey, recipientPublicKey)
        info == concatBytes(<<ENCRYPTION_INFO_PREFIX, senderPublicKey, recipientPublicKey>>)
        symmetricKey == hkdf(sharedSecret.value, ephemeral.publicKey, info, 32)
        senderSharedSecret == x25519ECDH(ephemeral.privateKey, senderPublicKey)
        senderInfo == concatBytes(<<SENDER_KEY_INFO_PREFIX, senderPublicKey>>)
        senderEncryptionKey == hkdf(senderSharedSecret.value, ephemeral.publicKey, senderInfo, 32)
    IN IF ~sharedSecret.ok THEN {Buffer("ephemeral.privateKey", ephemeral.privateKey)}
       ELSE IF ~senderSharedSecret.ok
       THEN {Buffer("ephemeral.privateKey", ephemeral.privateKey),
             Buffer("sharedSecret", sharedSecret.value),
             Buffer("symmetricKey", symmetricKey)}
       ELSE {Buffer("ephemeral.privateKey", ephemeral.privateKey),
             Buffer("sharedSecret", sharedSecret.value),
             Buffer("symmetricKey", symmetricKey),
             Buffer("senderSharedSecret", senderSharedSecret.value),
             Buffer("senderEncryptionKey", senderEncryptionKey)}

\* pskEncryptMessage: likewise.
pskEncryptMessageBuffers(plaintext, senderPublicKey, recipientPublicKey, initialPSK, counter, rnd) ==
    LET messageBytes == TextEncoderEncode(plaintext) IN
    IF length(messageBytes) > PSK_PROTOCOL.MAX_PAYLOAD_SIZE THEN {}
    ELSE
    LET currentPSK == derivePSKAtCounter(initialPSK, counter)
        ephPriv == rnd.ephPriv
        ephPub == getPublicKey(ephPriv)
        sharedSecret == getSharedSecret(ephPriv, recipientPublicKey)
        symmetricKey == deriveHybridSymmetricKey(sharedSecret.value, currentPSK, ephPub,
                                                 senderPublicKey, recipientPublicKey)
        senderSharedSecret == getSharedSecret(ephPriv, senderPublicKey)
        senderEncryptionKey == deriveSenderKey(senderSharedSecret.value, currentPSK, ephPub,
                                               senderPublicKey)
    IN IF ~sharedSecret.ok THEN {Buffer("ephPriv", ephPriv)}
       ELSE IF ~senderSharedSecret.ok
       THEN {Buffer("ephPriv", ephPriv),
             Buffer("sharedSecret", sharedSecret.value),
             Buffer("symmetricKey", symmetricKey)}
       ELSE {Buffer("ephPriv", ephPriv),
             Buffer("sharedSecret", sharedSecret.value),
             Buffer("symmetricKey", symmetricKey),
             Buffer("senderSharedSecret", senderSharedSecret.value),
             Buffer("senderEncryptionKey", senderEncryptionKey)}

\* pskDecryptAsRecipient: cipher.decrypt returns or throws last.
pskDecryptAsRecipientBuffers(envelope, recipientPrivateKey, recipientPublicKey, currentPSK) ==
    LET sharedSecret == getSharedSecret(recipientPrivateKey, envelope.ephemeralPublicKey)
        symmetricKey == deriveHybridSymmetricKey(sharedSecret.value, currentPSK,
                                                 envelope.ephemeralPublicKey,
                                                 envelope.senderPublicKey,
                                                 recipientPublicKey)
    IN IF ~sharedSecret.ok THEN {}
       ELSE {Buffer("sharedSecret", sharedSecret.value), Buffer("symmetricKey", symmetricKey)}

\* pskDecryptAsSender: when the sender key does not open, senderCipher.decrypt
\* throws and there is no symmetricKey.
pskDecryptAsSenderBuffers(envelope, senderPrivateKey, senderPublicKey, currentPSK) ==
    LET senderSharedSecret == getSharedSecret(senderPrivateKey, envelope.ephemeralPublicKey)
        senderDecryptionKey == deriveSenderKey(senderSharedSecret.value, currentPSK,
                                               envelope.ephemeralPublicKey,
                                               senderPublicKey)
        symmetricKey == chachaDecrypt(senderDecryptionKey, envelope.nonce,
                                      envelope.encryptedSenderKey)
    IN IF ~senderSharedSecret.ok THEN {}
       ELSE {Buffer("senderSharedSecret", senderSharedSecret.value),
             Buffer("senderDecryptionKey", senderDecryptionKey)}
            \cup (IF symmetricKey.ok THEN {Buffer("symmetricKey", symmetricKey.value)}
                  ELSE {})

pskDecryptMessageBuffers(envelope, myPrivateKey, myPublicKey, initialPSK) ==
    LET weAreSender == uint8ArrayEquals(myPublicKey, envelope.senderPublicKey)
        currentPSK == derivePSKAtCounter(initialPSK, envelope.counter)
    IN IF weAreSender
       THEN pskDecryptAsSenderBuffers(envelope, myPrivateKey, myPublicKey, currentPSK)
       ELSE pskDecryptAsRecipientBuffers(envelope, myPrivateKey, myPublicKey, currentPSK)

\* Calls: messages within and past the payload cap, to a peer and to
\* oneself; envelopes read by their recipient, by their sender and by a
\* third party, under the right PSK and under another.
KeyInputs ==
    {[op |-> "encryptMessage", text |-> t.text, sender |-> p[1], recipient |-> p[2],
      rnd |-> r] :
        t \in ShortTexts \cup LongTexts(PROTOCOL.MAX_PAYLOAD_SIZE),
        p \in Pairs, r \in Draws}
    \cup
    {[op |-> "pskEncryptMessage", text |-> t.text, sender |-> p[1], recipient |-> p[2],
      counter |-> c, rnd |-> r] :
        t \in ShortTexts \cup LongTexts(PSK_PROTOCOL.MAX_PAYLOAD_SIZE),
        p \in Pairs, c \in {Num(0), Num(100)}, r \in Draws}
    \cup
    {[op |-> "pskDecryptMessage", note |-> n, who |-> w, psk |-> k] :
        n \in PeerNotes \cup {OwnNote, WrongPSKNote, KeyPublishNote},
        w \in Parties, k \in {InitialPSK, WrongPSK}}

InitKeysRun ==
    /\ kIn \in KeyInputs
    /\ kBuf = None
    /\ kPc = "start"
    /\ InitIdleCounter
    /\ InitCrypto
    /\ InitCodec
    /\ InitService
    /\ InitChat
    /\ InitWallet
    /\ InitUri
    /\ InitRatchet
    /\ InitPersist
    /\ InitSend
    /\ InitSessionKey

EncryptKeys ==
    /\ kPc = "start" /\ kIn.op = "encryptMessage"
    /\ kBuf' = [returned |-> encryptMessage(kIn.text, KeysOf(kIn.sender).privateKey,
                                            KeysOf(kIn.sender).publicKey,
                                            KeysOf(kIn.recipient).publicKey, kIn.rnd).ok,
                buffers |-> encryptMessageBuffers(kIn.text, KeysOf(kIn.sender).privateKey,
                                                  KeysOf(kIn.sender).publicKey,
                                                  KeysOf(kIn.recipient).publicKey, kIn.rnd)]
    /\ kPc' = "done"
    /\ UNCHANGED <<kIn, exceptKeys>>

PSKEncryptKeys ==
    /\ kPc = "start" /\ kIn.op = "pskEncryptMessage"
    /\ kBuf' = [returned |-> pskEncryptMessage(kIn.text, KeysOf(kIn.sender).publicKey,
                                               KeysOf(kIn.recipient).publicKey,
                                               InitialPSK, kIn.counter, kIn.rnd).ok,
                buffers |-> pskEncryptMessageBuffers(kIn.text, KeysOf(kIn.sender).publicKey,
                                                     KeysOf(kIn.recipient).publicKey,
                                                     InitialPSK, kIn.counter, kIn.rnd)]
    /\ kPc' = "done"
    /\ UNCHANGED <<kIn, exceptKeys>>

PSKDecryptKeys ==
    /\ kPc = "start" /\ kIn.op = "pskDecryptMessage"
    /\ LET envelope == decodePSKEnvelope(kIn.note).value IN
       kBuf' = [returned |-> pskDecryptMessage(envelope, KeysOf(kIn.who).privateKey,
                                               KeysOf(kIn.who).publicKey, kIn.psk).ok,
                buffers |-> pskDecryptMessageBuffers(envelope, KeysOf(kIn.who).privateKey,
                                                     KeysOf(kIn.who).publicKey, kIn.psk)]
    /\ kPc' = "done"
    /\ UNCHANGED <<kIn, exceptKeys>>

NextKeys == EncryptKeys \/ PSKEncryptKeys \/ PSKDecryptKeys

SpecKeys == InitKeysRun /\ [][NextKeys]_vars

(***************************************************************************)
(* ChatService.sendPSKMessage (chat.service.ts), reached from sendMessage  *)
(* for a recipient with a stored PSK.  The call runs to its first await in *)
(* one step; a send is a call with the values it holds and the await it    *)
(* is at: "params" (getTransactionParams), "submitted" (the transaction    *)
(* was handed to the network; sendRawTransaction and waitForConfirmation), *)
(* and at the end "returned" or "threw".                                   *)
(***************************************************************************)
MaxSendCalls == 2   \* sendPSKMessage calls made in a run

\* advanceSendCounter of the library: the counter to use and a new state.
advanceLibrarySendCounter(st) ==
    [counter |-> st.sendCounter,
     state |-> [st EXCEPT !.sendCounter = NumAdd(st.sendCounter, Num(1))]]

\* encryptPSKMessage of the library: the PSK of the counter is passed in.
encryptPSKMessage(plaintext, senderPublicKey, recipientPublicKey, currentPSK, counter, rnd) ==
    LET messageBytes == TextEncoderEncode(plaintext) IN
    IF length(messageBytes) > PSK_PROTOCOL.MAX_PAYLOAD_SIZE THEN Err("PayloadTooLarge")
    ELSE
    LET ephPriv == rnd.ephPriv
        ephPub == getPublicKey(ephPriv)
        sharedSecret == getSharedSecret(ephPriv, recipientPublicKey)
        symmetricKey == deriveHybridSymmetricKey(sharedSecret.value, currentPSK, ephPub,
                                                 senderPublicKey, recipientPublicKey)
        nonce == rnd.nonce
        ciphertextWithTag == chachaEncrypt(symmetricKey, nonce, messageBytes)
        senderSharedSecret == getSharedSecret(ephPriv, senderPublicKey)
        senderEncryptionKey == deriveSenderKey(senderSharedSecret.value, currentPSK, ephPub,
                                               senderPublicKey)
        encryptedSenderKey == chachaEncrypt(senderEncryptionKey, nonce, symmetricKey)
    IN IF ~sharedSecret.ok THEN sharedSecret
       ELSE IF ~senderSharedSecret.ok THEN senderSharedSecret
       ELSE Ok([version |-> PSK_PROTOCOL.VERSION,
           protocolId |-> PSK_PROTOCOL.PROTOCOL_ID,
           counter |-> counter,
           senderPublicKey |-> senderPublicKey,
           ephemeralPublicKey |-> ephPub,
           nonce |-> nonce,
           encryptedSenderKey |-> encryptedSenderKey,
           ciphertext |-> ciphertextWithTag])

hasPSK(es, address) == es[address] # None

\* setState(address, state): the entries after it, and whether save() ran.
setState(es, address, st) ==
    IF es[address] = None THEN [entries |-> es, saves |-> FALSE]
    ELSE [entries |-> [es EXCEPT ![address].state = serializeState(st)],
          saves |-> TRUE]

\* sendPSKMessage up to "await this.algodClient.getTransactionParams()".
sendPSKMessage(recipientAddress, recipientPublicKey, message, rnd) ==
    LET me == KeysOf("alice")
        initialPSK == getPSK(entries, recipientAddress)
        st == getState(entries, recipientAddress)
        adv == advanceLibrarySendCounter(st)
        currentPSK == derivePSKAtCounter(initialPSK.some, adv.counter)
        envelope == encryptPSKMessage(message, me.publicKey, recipientPublicKey,
                                      currentPSK, adv.counter, rnd)
    IN /\ sendCalls < MaxSendCalls
       /\ hasPSK(entries, recipientAddress)
       /\ sendCalls' = sendCalls + 1
       /\ sends' = Append(sends,
                          IF envelope.ok
                          THEN [recipient |-> recipientAddress, counter |-> adv.counter,
                                newState |-> adv.state,
                                note |-> encodePSKEnvelope(envelope.value),
                                pc |-> "params", txid |-> 0]
                          ELSE [recipient |-> recipientAddress, pc |-> "threw"])
       /\ chatOut' = [op |-> "sendPSKMessage", recipient |-> recipientAddress]
       /\ UNCHANGED <<entries, savePending, saving, pskStore, pskMessageIds, ledger, exceptSend>>

\* From the return of getTransactionParams: the transaction is built,
\* signed and handed to the network (sendRawTransaction).
sendSubmit(i) ==
    /\ sends[i].pc = "params"
    /\ ledger' = Append(ledger, [txid |-> Len(ledger) + 1, call |-> i,
                                 recipient |-> sends[i].recipient,
                                 counter |-> sends[i].counter,
                                 note |-> sends[i].note,
                                 stored |-> pskStore])
    /\ sends' = [sends EXCEPT ![i].pc = "submitted", ![i].txid = Len(ledger) + 1]
    /\ chatOut' = [op |-> "sendSubmit", call |-> i]
    /\ UNCHANGED <<entries, savePending, saving, pskStore, pskMessageIds, sendCalls, exceptSend>>

\* From the return of waitForConfirmation to the end: setState, the id is
\* added to pskMessageIds, the txid is returned.
sendConfirmed(i) ==
    LET set == setState(entries, sends[i].recipient, sends[i].newState) IN
    /\ sends[i].pc = "submitted"
    /\ set.saves => savePending < MaxSaves
    /\ entries' = set.entries
    /\ savePending' = IF set.saves THEN savePending + 1 ELSE savePending
    /\ pskMessageIds' = pskMessageIds \cup {sends[i].txid}
    /\ sends' = [sends EXCEPT ![i].pc = "returned"]
    /\ chatOut' = [op |-> "sendConfirmed", call |-> i]
    /\ UNCHANGED <<saving, pskStore, ledger, sendCalls, exceptSend>>

\* A request to the node fails or waitForConfirmation runs out of rounds:
\* the call throws at the await it is at.
sendThrows(i) ==
    /\ sends[i].pc \in {"params", "submitted"}
    /\ sends' = [sends EXCEPT ![i].pc = "threw"]
    /\ chatOut' = [op |-> "sendThrows", call |-> i]
    /\ UNCHANGED <<entries, savePending, saving, pskStore, pskMessageIds, ledger, sendCalls,
                   exceptSend>>

NextSend ==
    \/ doSave
    \/ doSaveLanded
    \/ \E address \in Addresses, text \in SendTexts, rnd \in Draws :
           sendPSKMessage(address, KeysOf(address).publicKey, text, rnd)
    \/ \E i \in 1..Len(sends) : sendSubmit(i)
    \/ \E i \in 1..Len(sends) : sendConfirmed(i)
    \/ \E i \in 1..Len(sends) : sendThrows(i)

\* A PSK has been stored for each peer and saved; nothing was sent yet.
InitSendRun ==
    /\ entries = [a \in Addresses |->
                      [psk |-> uint8ArrayToBase64(InitialPSK),
                       state |-> serializeState(createLibraryPSKState)]]
    /\ savePending = 0
    /\ saving = None
    /\ pskStore = encryptForStorage(JSONStringify(entries), None, 1)
    /\ pskMessageIds = {}
    /\ chatOut = None
    /\ initialized = TRUE
    /\ loads = <<>>
    /\ sessionKey = 1
    /\ generating = {}
    /\ keysMade = 1
    /\ InitSend
    /\ InitIdleCounter
    /\ InitCrypto
    /\ InitCodec
    /\ InitService
    /\ InitWallet
    /\ InitUri
    /\ InitRatchet
    /\ InitPersist
    /\ InitKeys

SpecSend == InitSendRun /\ [][NextSend]_vars

(***************************************************************************)
(* Properties of the counter state.                                        *)
(***************************************************************************)
ToInt(a) == a.hi * Limb + a.lo

Window == PSK_PROTOCOL.COUNTER_WINDOW

\* C1: replay protection.  Every counter recorded since the state was
\* created is rejected by validateReceiveCounter, also after it was pruned
\* from receivedCounters; so no validate / record-on-ok step accepts a counter
\* that was recorded before.
C1_ReplayRejected ==
    /\ \A c \in recorded : ~validateReceiveCounter(state, c)
    /\ (lastRecv # None /\ lastRecv.op = "receive" /\ lastRecv.replay)
           => ~lastRecv.accepted

\* A recorded counter was pruned, was presented again and was rejected.
C1_Witness ==
    /\ lastRecv # None
    /\ lastRecv.op = "receive"
    /\ lastRecv.replay
    /\ ~lastRecv.accepted
    /\ lastRecv.counter \notin state.receivedCounters

\* The rule of the claim, on plain integers.
AcceptedByRule(st, c) ==
    IF st.receivedCounters = {} THEN TRUE
    ELSE /\ c \notin st.receivedCounters
         /\ Max(0, ToInt(st.receiveCounter) - 200) <= ToInt(c)
         /\ ToInt(c) <= ToInt(st.receiveCounter) + 200

\* The input counters and the four counters at the edges of the window.
Probes(st) ==
    CounterInputs \cup
    {Num(ToInt(st.receiveCounter) + d) : d \in {200, 201}} \cup
    {Num(Max(0, ToInt(st.receiveCounter) - d)) : d \in {200, 201}}

\* C2: validateReceiveCounter accepts any counter while receivedCounters is
\* empty, and afterwards accepts c exactly when c is not in receivedCounters
\* and max(0, receiveCounter - 200) <= c <= receiveCounter + 200.
C2_AcceptanceRule ==
    \A c \in Probes(state) :
        validateReceiveCounter(state, c) = AcceptedByRule(state, c)

\* A counter exactly 200 past the high-water mark was accepted.
C2_Witness ==
    /\ lastRecv # None
    /\ lastRecv.op = "receive"
    /\ lastRecv.accepted
    /\ ~lastRecv.preEmpty
    /\ ToInt(lastRecv.counter) = ToInt(lastRecv.preHigh) + 200

\* C3: the k-th advanceSendCounter call returned k-1 and left
\* sendCounter = k, whatever became of the encryptions in between.
C3_SendCountersInOrder ==
    /\ \A i \in 1..Len(sendLog) : sendLog[i].counter = Num(i - 1)
    /\ state.sendCounter = Num(Len(sendLog))

\* Two calls, the first followed by a failed encryption.
C3_Witness ==
    /\ Len(sendLog) = 2
    /\ ~sendLog[1].ok
    /\ sendLog[1].counter = Num(0)
    /\ sendLog[2].ok
    /\ sendLog[2].counter = Num(1)

\* C10: receivedCounters holds no counter below receiveCounter - 200 and
\* none above receiveCounter, hence at most 201 counters.
C10_WindowBound ==
    /\ \A c \in state.receivedCounters :
           /\ ToInt(c) >= ToInt(state.receiveCounter) - Window
           /\ ToInt(c) <= ToInt(state.receiveCounter)
    /\ Cardinality(state.receivedCounters) <= Window + 1

\* recordReceivedCounter moved the high-water mark and counter 0 was pruned.
C10_Witness ==
    /\ lastRecv # None
    /\ lastRecv.op = "record"
    /\ lastRecv.counter = state.receiveCounter
    /\ NumLess(lastRecv.preHigh, lastRecv.counter)
    /\ Num(0) \in recorded
    /\ Num(0) \notin state.receivedCounters

(***************************************************************************)
(* Properties of encryption.                                               *)
(***************************************************************************)
Done == cPc = "done"
Untouched == cTamper = None
RightPSK == cOut.psk = cIn.psk
DecryptFailed == Err("DecryptFailed")

\* decryptMessage / pskDecryptMessage takes the encrypted-sender-key path.
SenderPath(who) == uint8ArrayEquals(KeysOf(who).publicKey, cEnv.value.senderPublicKey)

\* The content returned carries this text (and, for PSK, the counter sent).
ReturnsText(result, text) ==
    /\ result.ok
    /\ result.value # Null
    /\ result.value.text = text
    /\ cIn.proto = "psk" => result.value.counter = cIn.counter

\* Texts that are Unicode text, do not begin with U+FEFF and are not a JSON
\* object of the content sub-format (type "key-publish", or a string text).
WellFormed(text) == \A i \in 1..Len(text) : ~IsSurrogate(text[i])
SubFormat(text) ==
    /\ startsWithBrace(text)
    /\ ~JSONParse(text).throws
    /\ JSONParse(text).isKeyPublish \/ JSONParse(text).textIsString
Verbatim(text) ==
    /\ WellFormed(text)
    /\ Len(text) > 0 => text[1] # 65279
    /\ ~SubFormat(text)

\* C4 as stated: the recipient gets back every text within the cap.
C4_RoundTripAnyText ==
    (Done /\ Untouched /\ cOut.who = cIn.recipient /\ RightPSK)
        => ReturnsText(cOut.result, cIn.text)

\* C4: the recipient's decrypt of an unchanged envelope succeeds; it returns
\* the text sent (and the counter, for PSK) when the text is well-formed
\* Unicode, does not begin with U+FEFF and is not a JSON object of the
\* content sub-format; for a JSON object with a string text member it
\* returns that member, and for one of type key-publish it returns null.
C4_RoundTrip ==
    (Done /\ Untouched /\ cOut.who = cIn.recipient /\ RightPSK)
        => /\ cOut.result.ok
           /\ Verbatim(cIn.text) => ReturnsText(cOut.result, cIn.text)
           /\ (WellFormed(cIn.text) /\ SubFormat(cIn.text)) =>
                  IF JSONParse(cIn.text).isKeyPublish
                  THEN cOut.result.value = Null
                  ELSE ReturnsText(cOut.result, JSONParse(cIn.text).text)

\* The recipient, not the sender, got back a text of two-byte characters
\* that fills the PSK cap, sent under the largest counter.
C4_Witness ==
    /\ Done /\ Untouched /\ RightPSK
    /\ cOut.who = cIn.recipient
    /\ cIn.recipient # cIn.sender
    /\ cIn.proto = "psk"
    /\ cIn.counter = MAX_UINT32
    /\ cIn.utf8 = PSK_PROTOCOL.MAX_PAYLOAD_SIZE
    /\ Len(cIn.text) < cIn.utf8
    /\ ReturnsText(cOut.result, cIn.text)

\* C5: the sender of an unchanged envelope decrypts on the
\* encrypted-sender-key path, succeeds, and gets exactly what the recipient
\* gets, in both protocols.
C5_SenderRecovery ==
    (Done /\ Untouched /\ cOut.who = cIn.sender /\ RightPSK)
        => /\ SenderPath(cOut.who)
           /\ cOut.result.ok
           /\ cOut.result = DecryptRun(cIn.proto, cEnv.value, cIn.recipient, cIn.psk)

\* The sender of a base-protocol message to someone else got the text back.
C5_Witness ==
    /\ Done /\ Untouched
    /\ cOut.who = cIn.sender
    /\ cIn.recipient # cIn.sender
    /\ cIn.proto = "base"
    /\ SenderPath(cOut.who)
    /\ ReturnsText(cOut.result, cIn.text)

ByteFields == {"ciphertext", "tag", "nonce", "encryptedSenderKey"}

\* C6 as stated: a changed byte in any of the four fields makes decrypt fail
\* for the sender and for the recipient.
C6_AnyChangeFails ==
    (Done /\ cTamper # None /\ cTamper.field \in ByteFields
          /\ cOut.who \in {cIn.sender, cIn.recipient})
        => cOut.result = DecryptFailed

\* C6: a changed byte of the ciphertext, the tag or the nonce makes decrypt
\* fail for the sender and for the recipient; a changed byte of the
\* encrypted sender key makes decrypt fail on the sender path, and leaves
\* the decrypt of a recipient who is not the sender as it was.
C6_TamperDetected ==
    (Done /\ cTamper # None /\ cTamper.field \in ByteFields
          /\ cOut.who \in {cIn.sender, cIn.recipient})
        => IF cTamper.field # "encryptedSenderKey" \/ SenderPath(cOut.who)
           THEN cOut.result = DecryptFailed
           ELSE RightPSK =>
                    /\ cOut.result.ok
                    /\ cOut.result =
                           DecryptRun(cIn.proto, EncryptRun(cIn).value, cOut.who, cOut.psk)

\* The last byte of the encrypted sender key was changed and the recipient
\* still read the message.
C6_Witness ==
    /\ Done
    /\ cTamper # None
    /\ cTamper.field = "encryptedSenderKey"
    /\ cTamper.index = PROTOCOL.ENCRYPTED_SENDER_KEY_SIZE - 1
    /\ cOut.who = cIn.recipient
    /\ ~SenderPath(cOut.who)
    /\ ReturnsText(cOut.result, cIn.text)

\* C7: decrypt fails for a party that is neither sender nor recipient, for
\* another initial PSK, and for an envelope whose counter was replaced.
C7_WrongKeyRejected ==
    (Done /\ \/ cOut.who \notin {cIn.sender, cIn.recipient}
             \/ cIn.proto = "psk" /\ ~RightPSK
             \/ cTamper # None /\ cTamper.field = "counter")
        => cOut.result = DecryptFailed

\* The recipient, holding the right PSK, was refused an envelope whose
\* counter had been replaced by another of the same session.
C7_Witness ==
    /\ Done
    /\ cTamper # None
    /\ cTamper.field = "counter"
    /\ cIn.counter = Num(0)
    /\ cEnv.value.counter = Num(99)
    /\ cOut.who = cIn.recipient
    /\ RightPSK
    /\ cOut.result = DecryptFailed

\* Size of a transaction note.
MaxNoteSize == 1024

CapOf(proto) ==
    IF proto = "base" THEN PROTOCOL.MAX_PAYLOAD_SIZE ELSE PSK_PROTOCOL.MAX_PAYLOAD_SIZE
HeaderOf(proto) ==
    IF proto = "base" THEN PROTOCOL.HEADER_SIZE ELSE PSK_PROTOCOL.HEADER_SIZE
Encoded(proto, envelope) ==
    IF proto = "base" THEN encodeEnvelope(envelope) ELSE encodePSKEnvelope(envelope)

\* C9: a text longer in UTF-8 than the cap is rejected with PayloadTooLarge
\* and yields no envelope; every other text yields an envelope that encodes
\* to header + UTF-8 length + 16 bytes, at most 1024.
C9_SizeBound ==
    cPc # "start"
        => IF cIn.utf8 > CapOf(cIn.proto)
           THEN cPc = "rejected" /\ cEnv = Err("PayloadTooLarge")
           ELSE /\ cEnv.ok
                /\ length(Encoded(cIn.proto, cEnv.value))
                       = HeaderOf(cIn.proto) + cIn.utf8 + PROTOCOL.TAG_SIZE
                /\ length(Encoded(cIn.proto, cEnv.value)) <= MaxNoteSize

\* A base-protocol text of two-byte characters that fills the cap was
\* encrypted into an envelope of exactly 1024 bytes.
C9_Witness ==
    /\ cPc = "encrypted"
    /\ cIn.proto = "base"
    /\ cIn.utf8 = PROTOCOL.MAX_PAYLOAD_SIZE
    /\ Len(cIn.text) < cIn.utf8
    /\ length(encodeEnvelope(cEnv.value)) = MaxNoteSize

(***************************************************************************)
(* Properties of the codecs.                                               *)
(***************************************************************************)
\* C8: decoding the encoding of a well-formed envelope gives the envelope
\* back, field by field, the counter included.
C8_CodecRoundTrip ==
    wPc = "decoded" => wOut = Ok(wEnv)

\* A PSK envelope with counter 2^32 - 1 and a ciphertext of the largest size
\* went through encode and decode.
C8_Witness ==
    /\ wPc = "decoded"
    /\ IsPSKEnvelope(wEnv)
    /\ wEnv.counter = MAX_UINT32
    /\ length(wEnv.ciphertext) = PSK_PROTOCOL.MAX_PAYLOAD_SIZE + PSK_PROTOCOL.TAG_SIZE
    /\ wOut.ok
    /\ wOut.value.counter = MAX_UINT32
    /\ wOut.value.ciphertext = wEnv.ciphertext

(***************************************************************************)
(* Properties of the send counter at the end of its range.                 *)
(***************************************************************************)
\* C11: advanceSendCounter at sendCounter = 2^32 - 1 throws and leaves the
\* state as it was, so sendCounter stays within 0 .. 2^32 - 1.
C11_OverflowAtMax ==
    /\ NumLeq(state.sendCounter, MAX_UINT32)
    /\ \A i \in 1..Len(sendLog) :
           sendLog[i].pre = MAX_UINT32 => sendLog[i].counter = None

(***************************************************************************)
(* Properties of PSKService.                                               *)
(***************************************************************************)
\* The step is a call of PSKService.encrypt or decrypt for an address that
\* has no session.
NoSessionCall(a) ==
    /\ sessions[a] = None
    /\ svcOut'.address = a
    /\ svcOut'.op \in {"encrypt", "decrypt"}

\* C12: for an address without a session, encrypt fails and decrypt returns
\* no message, and neither changes a session or the stored state;
\* initSession with a 32-byte PSK succeeds and leaves sendCounter = 0,
\* receiveCounter = 0 and receivedCounters empty.
C12_SessionLifecycle ==
    [][\A a \in Addresses :
           /\ NoSessionCall(a) =>
                  /\ svcOut'.op = "encrypt" => ~svcOut'.result.ok
                  /\ svcOut'.op = "decrypt" => svcOut'.result = Ok(Null)
                  /\ sessions' = sessions
                  /\ storage' = storage
           /\ (svcOut'.op = "initSession" /\ svcOut'.address = a
                   /\ length(svcOut'.initialPSK) = 32) =>
                  /\ svcOut'.result.ok
                  /\ sessions'[a] # None
                  /\ sessions'[a].sendCounter = Num(0)
                  /\ sessions'[a].receiveCounter = Num(0)
                  /\ sessions'[a].receivedCounters = {}]_vars

\* A PSK message of a peer was given to decrypt for an address without a
\* session, while the other address had one, and no message came back.
C12_Witness ==
    /\ svcOut # None
    /\ svcOut.op = "decrypt"
    /\ svcOut.note \in PeerNotes
    /\ sessions[svcOut.address] = None
    /\ storage[svcOut.address] = None
    /\ \E b \in Addresses : sessions[b] # None
    /\ svcOut.result = Ok(Null)

(***************************************************************************)
(* Properties of the dispatcher.                                           *)
(***************************************************************************)
ChatUnchanged ==
    /\ entries' = entries
    /\ savePending' = savePending
    /\ saving' = saving
    /\ pskStore' = pskStore
    /\ pskMessageIds' = pskMessageIds

Skipped == chatOut'.result = Null /\ chatOut'.attempted = {} /\ ChatUnchanged

\* The call reported on in chatOut was made on a note that is neither a base
\* nor a PSK message.
ParsedOtherNote(out) ==
    /\ "op" \in DOMAIN out
    /\ out.op = "tryParseMessage"
    /\ ~isChatMessage(out.note)
    /\ ~isPSKMessage(out.note)

\* C13: tryParseMessage reports a note that is neither a base nor a PSK
\* message as NotAChatMessage and a PSK message of a peer without a stored
\* PSK as NoSessionKey: in both cases no decrypt function is called and the
\* entries, their counters and the stored copy stay as they were, and the
\* two reports are different ones, so that the value returned for the PSK
\* message is not the value returned by the call before it for a note that
\* is no message.
C13_DistinctReports ==
    [][("op" \in DOMAIN chatOut' /\ chatOut'.op = "tryParseMessage") =>
          /\ ParsedOtherNote(chatOut') => Skipped
          /\ (isPSKMessage(chatOut'.note) /\ entries[chatOut'.otherParty] = None)
                 => /\ Skipped
                    /\ ParsedOtherNote(chatOut) => chatOut'.result # chatOut.result]_vars

(***************************************************************************)
(* Properties of the classifiers and decoders on any bytes.                *)
(***************************************************************************)
Classified == wPc = "done" /\ wOut.op = "classify"
Decoded == wPc = "done" /\ wOut.op \in {"decodeEnvelope", "decodePSKEnvelope"}
ByteAt(i) == IF length(wBytes) > i THEN at(wBytes, i) ELSE -1
TooShortForCodec == length(wBytes) < wOut.minSize
Unsupported == {"UnsupportedVersion", "UnsupportedProtocol"}

\* C14: isChatMessage(bytes) is true exactly when bytes[0] = 0x01,
\* bytes[1] = 0x01 and there are at least 142 bytes.
C14_BaseClassifier ==
    Classified =>
        (wOut.isChatMessage <=>
            /\ ByteAt(0) = 1
            /\ ByteAt(1) = 1
            /\ length(wBytes) >= 142)

\* C15 as stated: an input below the minimum size is rejected as too
\* short whatever its first two bytes are; one of sufficient size is
\* rejected for its version when byte 0 is wrong and for its protocol when
\* byte 1 is wrong; every other input decodes.
C15_TooShortWhateverHeader ==
    Decoded =>
        /\ TooShortForCodec => wOut.result = Err("TooShort")
        /\ (~TooShortForCodec /\ ByteAt(0) # 1 /\ ByteAt(1) = wOut.protocolId)
               => wOut.result = Err("UnsupportedVersion")
        /\ (~TooShortForCodec /\ ByteAt(0) = 1 /\ ByteAt(1) # wOut.protocolId)
               => wOut.result = Err("UnsupportedProtocol")
        /\ (~TooShortForCodec /\ ByteAt(0) # 1 /\ ByteAt(1) # wOut.protocolId)
               => (~wOut.result.ok /\ wOut.result.error \in Unsupported)
        /\ (~TooShortForCodec /\ ByteAt(0) = 1 /\ ByteAt(1) = wOut.protocolId)
               => wOut.result.ok

\* C15: an input below the minimum size is rejected: as too short when it
\* has fewer than two bytes or its two header bytes are right, and for its
\* version or protocol when they are wrong.  An input of sufficient size is
\* rejected for its version when only byte 0 is wrong, for its protocol
\* when only byte 1 is wrong, and for one of the two when both are wrong;
\* every other input decodes.
C15_DecodeErrorKinds ==
    Decoded =>
        /\ TooShortForCodec => ~wOut.result.ok
        /\ (TooShortForCodec /\ (length(wBytes) < 2
                                  \/ (ByteAt(0) = 1 /\ ByteAt(1) = wOut.protocolId)))
               => wOut.result = Err("TooShort")
        /\ (length(wBytes) >= 2 /\ ByteAt(0) # 1 /\ ByteAt(1) = wOut.protocolId)
               => wOut.result = Err("UnsupportedVersion")
        /\ (length(wBytes) >= 2 /\ ByteAt(0) = 1 /\ ByteAt(1) # wOut.protocolId)
               => wOut.result = Err("UnsupportedProtocol")
        /\ (length(wBytes) >= 2 /\ ByteAt(0) # 1 /\ ByteAt(1) # wOut.protocolId)
               => (~wOut.result.ok /\ wOut.result.error \in Unsupported)
        /\ (~TooShortForCodec /\ ByteAt(0) = 1 /\ ByteAt(1) = wOut.protocolId)
               => wOut.result.ok

\* Three bytes with a wrong version were rejected by the base decoder for
\* the version.
C15_Witness ==
    /\ Decoded
    /\ wOut.op = "decodeEnvelope"
    /\ length(wBytes) = 3
    /\ ByteAt(0) = 2 /\ ByteAt(1) = 1
    /\ wOut.result = Err("UnsupportedVersion")

\* C16: an input of more than 1024 bytes is rejected by both decoders,
\* also when its header bytes are right.
C16_OverLargeRejected ==
    (Decoded /\ length(wBytes) > MaxNoteSize) => ~wOut.result.ok

(***************************************************************************)
(* Properties of the exchange URI.                                         *)
(***************************************************************************)
\* C17: for every address, 32-byte PSK and label, the URI is created, and
\* parsing it gives the same address, the same PSK bytes and the label
\* unchanged.
C17_URIRoundTrip ==
    /\ (uPc = "created" /\ length(uIn.psk) = 32) => uUri.ok
    /\ (uPc = "parsed" /\ length(uIn.psk) = 32) =>
           uOut = Ok([address |-> uIn.address, psk |-> uIn.psk, label |-> uIn.label])

(***************************************************************************)
(* Properties of the ratchet.                                              *)
(***************************************************************************)
TwoStep(psk, sp) ==
    derivePositionPSK(deriveSessionPSK(psk, Num(sp.session)), Num(sp.position))

\* C18: the PSK at counter c = 100 * session + position, position below
\* 100, is derivePositionPSK(deriveSessionPSK(p, session), position); so
\* counters 0..99 are in session 0 and counter 100 is position 0 of session
\* 1; and two different counters never give the same place, nor the same
\* PSK.
C18_RatchetDecomposition ==
    rPc = "derived" =>
        /\ rOut.a = TwoStep(rIn.psk, rIn.a)
        /\ rOut.b = TwoStep(rIn.psk, rIn.b)
        /\ CounterOf(rIn.a) # CounterOf(rIn.b)
               => (rIn.a # rIn.b /\ rOut.a # rOut.b)

\* Counters 99 and 100 were derived: the last of session 0 and the first
\* of session 1.
C18_Witness ==
    /\ rPc = "derived"
    /\ CounterOf(rIn.a) = Num(99) /\ rIn.a.session = 0
    /\ CounterOf(rIn.b) = Num(100) /\ rIn.b = [session |-> 1, position |-> 0]
    /\ rOut.a # rOut.b

(***************************************************************************)
(* Properties of the stored sessions.                                      *)
(***************************************************************************)
\* A text that holds a state: a JSON object whose initialPSK is an array of
\* 32 bytes, whose counters are numbers and whose receivedCounters is an
\* array of numbers.
HoldsState(t) ==
    /\ "json" \in DOMAIN t
    /\ t.json # Null /\ IsObject(t.json)
    /\ {"initialPSK", "sendCounter", "receiveCounter", "receivedCounters"}
           \subseteq DOMAIN t.json
    /\ IsArray(t.json.initialPSK) /\ Len(t.json.initialPSK.arr) = 32
    /\ IsNumber(t.json.sendCounter)
    /\ IsNumber(t.json.receiveCounter)
    /\ IsArray(t.json.receivedCounters)
    /\ \A c \in t.json.receivedCounters.arr : IsNumber(c)

\* C19: a stored text that does not hold a state is not deserialized: after
\* loadPersistedSessions its address has no session (neither a state read
\* from the text nor a fresh one).
C19_MalformedStateRejected ==
    (svcOut # None /\ svcOut.op = "loadPersistedSessions") =>
        \A a \in Addresses :
            (storage[a] # None /\ ~HoldsState(storage[a])) => sessions[a] = None

(***************************************************************************)
(* Properties of the wallet.                                               *)
(***************************************************************************)
\* C20: once disconnect() has been called, no connect or unlockWithPassword
\* has been called after it, and no async call is waiting any more, there
\* is no account, neither storage holds a mnemonic, and the password
\* context is cleared.
C20_ClearedAfterDisconnect ==
    (disconnected /\ flights = <<>>) =>
        /\ account = None
        /\ sessionItem = None
        /\ persistItem = None
        /\ cachedPassword = None

(***************************************************************************)
(* Properties of the incoming PSK path.                                    *)
(***************************************************************************)
\* The step is a tryParseMessage of a received PSK message of a peer with
\* an entry, whose counter the window of that entry refuses: a replay, or a
\* counter below the window.
RefusedByWindow ==
    /\ "op" \in DOMAIN chatOut' /\ chatOut'.op = "tryParseMessage"
    /\ chatOut'.direction = "received"
    /\ isPSKMessage(chatOut'.note)
    /\ decodePSKEnvelope(chatOut'.note).ok
    /\ entries[chatOut'.otherParty] # None
    /\ ~validateCounter(getState(entries, chatOut'.otherParty),
                        decodePSKEnvelope(chatOut'.note).value.counter)

\* C21: a received PSK message whose counter is a replay or out of window is
\* refused before its PSK is derived and its decryption attempted, and is
\* not given to the caller as a message.
C21_ReplayNeverDelivered ==
    [][RefusedByWindow =>
          /\ "decryptPSKMessage" \notin chatOut'.attempted
          /\ chatOut'.result = Null]_vars

\* The step is a PSKService.decrypt for address a of a PSK envelope whose
\* counter the window accepted and whose decryption failed.
DecryptionFailed(a) ==
    /\ svcOut'.op = "decrypt"
    /\ svcOut'.address = a
    /\ sessions[a] # None
    /\ isPSKMessage(svcOut'.note)
    /\ decodePSKEnvelope(svcOut'.note).ok
    /\ validateReceiveCounter(sessions[a], decodePSKEnvelope(svcOut'.note).value.counter)
    /\ ~svcOut'.result.ok

\* C22: the counter is recorded only after a successful decryption.  When
\* the decryption of an incoming PSK envelope fails, the session (send
\* counter, receiveCounter, receivedCounters) and its stored copy stay as
\* they were, so the counter of the envelope is still accepted afterwards.
C22_RecordOnlyAfterDecryption ==
    [][\A a \in Addresses :
           DecryptionFailed(a) =>
               /\ sessions' = sessions
               /\ storage' = storage
               /\ validateReceiveCounter(
                      sessions'[a], decodePSKEnvelope(svcOut'.note).value.counter)]_vars

\* bob's session had received a message, then an envelope under another PSK
\* with the fresh counter 1 failed to decrypt: the window is as it was, the
\* stored copy is that of the session, and counter 1 is still accepted.
C22_Witness ==
    /\ svcOut # None
    /\ svcOut.op = "decrypt"
    /\ svcOut.address = "bob"
    /\ svcOut.note = WrongPSKNote
    /\ ~svcOut.result.ok
    /\ sessions["bob"] # None
    /\ sessions["bob"].receivedCounters = {Num(0)}
    /\ storage["bob"] = serializePSKState(sessions["bob"])
    /\ validateReceiveCounter(sessions["bob"], Num(1))

(***************************************************************************)
(* Properties of the high-water mark.                                      *)
(***************************************************************************)
\* The largest of a set of counters, 0 for the empty set.
Largest(cs) ==
    IF cs = {} THEN Num(0) ELSE CHOOSE c \in cs : \A d \in cs : NumLeq(d, c)

\* C25: receiveCounter is the largest counter recorded since the state was
\* created (0 when none was); while receivedCounters is not empty it holds
\* receiveCounter; and no step lowers receiveCounter.
C25_HighWaterMark ==
    /\ [](/\ state.receiveCounter = Largest(recorded)
          /\ state.receivedCounters # {} =>
                 state.receiveCounter \in state.receivedCounters)
    /\ [][NumLeq(state.receiveCounter, state'.receiveCounter)]_vars

\* After a counter past the window had been recorded, a lower counter inside
\* the window was recorded: the mark stayed at the higher one.
C25_Witness ==
    /\ lastRecv # None
    /\ lastRecv.op = "record"
    /\ NumLess(lastRecv.counter, lastRecv.preHigh)
    /\ lastRecv.counter \in state.receivedCounters
    /\ state.receiveCounter = lastRecv.preHigh
    /\ Cardinality(recorded) > Cardinality(state.receivedCounters)

(***************************************************************************)
(* Frame conditions of the counter operations.                             *)
(***************************************************************************)
\* The step is a call of PSKService.encrypt or decrypt for address a, which
\* has a session.
SessionCall(a) ==
    /\ svcOut'.address = a
    /\ svcOut'.op \in {"encrypt", "decrypt"}
    /\ sessions[a] # None

\* The window of the session of a refused the counter of the note.
Refused(a) ==
    /\ svcOut'.op = "decrypt"
    /\ isPSKMessage(svcOut'.note)
    /\ decodePSKEnvelope(svcOut'.note).ok
    /\ ~validateReceiveCounter(sessions[a], decodePSKEnvelope(svcOut'.note).value.counter)

\* C30: validateReceiveCounter changes nothing (a refused note leaves the
\* session as it was); advanceSendCounter changes only sendCounter;
\* recordReceivedCounter changes only receiveCounter and receivedCounters,
\* never sendCounter or initialPSK; and a call for one address changes
\* neither the session nor the stored state of another address.
C30_FrameConditions ==
    [][\A a \in Addresses :
           /\ svcOut'.address = a =>
                  \A b \in Addresses \ {a} :
                      sessions'[b] = sessions[b] /\ storage'[b] = storage[b]
           /\ SessionCall(a) =>
                  /\ sessions'[a] # None
                  /\ sessions'[a].initialPSK = sessions[a].initialPSK
                  /\ svcOut'.op = "encrypt" =>
                         /\ sessions'[a].receiveCounter = sessions[a].receiveCounter
                         /\ sessions'[a].receivedCounters = sessions[a].receivedCounters
                  /\ svcOut'.op = "decrypt" =>
                         sessions'[a].sendCounter = sessions[a].sendCounter
                  /\ Refused(a) => sessions'[a] = sessions[a]]_vars

\* bob's session had received a message and carol had a session: a message
\* was encrypted for bob, whose sendCounter moved while his window and
\* carol's fresh session stayed.
C30_Witness ==
    /\ svcOut # None
    /\ svcOut.op = "encrypt"
    /\ svcOut.address = "bob"
    /\ svcOut.result.ok
    /\ sessions["bob"] # None
    /\ sessions["bob"].sendCounter = Num(1)
    /\ sessions["bob"].receivedCounters # {}
    /\ sessions["carol"] = createPSKState(InitialPSK).value
    /\ storage["carol"] = serializePSKState(sessions["carol"])

(***************************************************************************)
(* Properties of reading back one's own messages.                          *)
(***************************************************************************)
\* The step is a PSKService.decrypt, for address a, of a PSK message whose
\* author is the local user.
OwnMessageRead(a) ==
    /\ svcOut'.op = "decrypt"
    /\ svcOut'.address = a
    /\ sessions[a] # None
    /\ isPSKMessage(svcOut'.note)
    /\ decodePSKEnvelope(svcOut'.note).ok
    /\ uint8ArrayEquals(KeysOf("alice").publicKey,
                        decodePSKEnvelope(svcOut'.note).value.senderPublicKey)

\* C27: decrypting a PSK message that the local user wrote leaves the
\* receive window of the peer (receiveCounter, receivedCounters) as it was,
\* so the counter of that message is accepted from the peer as before.
C27_OwnMessagesLeaveWindow ==
    [][\A a \in Addresses :
           OwnMessageRead(a) =>
               /\ sessions'[a].receiveCounter = sessions[a].receiveCounter
               /\ sessions'[a].receivedCounters = sessions[a].receivedCounters
               /\ validateReceiveCounter(
                      sessions'[a], decodePSKEnvelope(svcOut'.note).value.counter)
                  = validateReceiveCounter(
                      sessions[a], decodePSKEnvelope(svcOut'.note).value.counter)]_vars

(***************************************************************************)
(* Properties of the stored sessions under async persistState.             *)
(***************************************************************************)
\* The text that a stored item holds.
StoredText(item) ==
    IF isEncryptedData(item) \/ isSessionEncryptedData(item)
    THEN item.ciphertext.aesgcm ELSE item

\* C28: once no persistState and no loadPersistedSessions is waiting any
\* more, the stored state of every session is the state in memory: no write
\* of an older state lands after that of a newer one, and the stored
\* sendCounter is not below a counter that was given out.
C28_StoredStateIsLatest ==
    (persists = <<>> /\ sessionLoads = <<>>) =>
        \A a \in Addresses :
            sessions[a] # None =>
                /\ storage[a] # None
                /\ StoredText(storage[a]) = serializePSKState(sessions[a])

\* C29: once no persistState and no loadPersistedSessions is waiting any
\* more, an address whose session was removed (by removeSession or clearAll)
\* has no stored state: no persistState that was waiting writes a removed
\* session back.
C29_RemovalIsFinal ==
    (persists = <<>> /\ sessionLoads = <<>>) =>
        \A a \in Addresses : sessions[a] = None => storage[a] = None

(***************************************************************************)
(* Properties of the key material.                                         *)
(***************************************************************************)
\* C26: when encrypt or decrypt has returned or thrown, every buffer it made
\* for the ephemeral secret, a shared secret, the symmetric key or the
\* sender key holds only zero bytes.
C26_KeyMaterialZeroised ==
    kPc = "done" =>
        \A b \in kBuf.buffers : b.bytes = Zeros(length(b.bytes))

(***************************************************************************)
(* Properties of sending.                                                  *)
(***************************************************************************)
\* The ledger entries of the calls that did not throw.
Published == {i \in 1..Len(ledger) : sends[ledger[i].call].pc # "threw"}

\* C23: whatever the interleaving of the sendPSKMessage calls to one peer,
\* no two notes published to that peer carry the same counter, and the
\* sendCounter kept for the peer is above the counter of every message whose
\* call has returned (no advanced state is overwritten by an older one).
C23_SendsSerialised ==
    /\ \A i, j \in Published :
           (i < j /\ ledger[i].recipient = ledger[j].recipient)
               => ledger[i].counter # ledger[j].counter
    /\ \A i \in Published :
           sends[ledger[i].call].pc = "returned" =>
               NumLess(ledger[i].counter,
                       getState(entries, ledger[i].recipient).sendCounter)

\* The entries that a stored item holds.
StoredEntries(item) == item.ciphertext.aesgcm.json

\* C24: when a note is handed to the network, the stored state of its
\* recipient already has a sendCounter above the counter of the note.
C24_PersistBeforePublish ==
    \A i \in 1..Len(ledger) :
        /\ ledger[i].stored # None
        /\ NumLess(ledger[i].counter,
                   getState(StoredEntries(ledger[i].stored),
                            ledger[i].recipient).sendCounter)

====
